---- MODULE Spec2Model ----
(***************************************************************************)
(* Verification model of the alert-deduplication engine of the Stochastic  *)
(* RSI / SMI alert system.                                                  *)
(*                                                                          *)
(* The repository holds several drivers, each with its own ledger:          *)
(*   - src/main.py                       AlertManager   (time cooldown,     *)
(*                                       JSON file, clear-opposite)         *)
(*   - src/src/main.py + signal_detector SignalDetector (time cooldown,     *)
(*                                       parallel fetch, one bulk message)  *)
(*   - src/test/indicators/smi_standalone.py  SMIStandalone (candle dedup   *)
(*                                       + freshness, JSON file, sweep)     *)
(*   - src/src/indicators/smi_debug.py   SMIDebug (candle dedup + freshness *)
(*                                       on a shared DynamoDB table)        *)
(* Each driver, and each indicator step, is one specification of this      *)
(* module (Spec, SpecCrash, SpecGate, SpecPar, SpecCandle, SpecRace,        *)
(* SpecFail, SpecCross, SpecWin, SpecWarm, SpecBar, SpecSmi, SpecRsi,       *)
(* SpecFrame, SpecTest); the variables of the others keep their initial     *)
(* values in it.                                                            *)
(*                                                                          *)
(* Time is counted in whole minutes since an arbitrary epoch.               *)
(***************************************************************************)
EXTENDS Integers, Sequences, FiniteSets, TLC

VARIABLES
    now,        \* the wall clock (datetime.now() / datetime.utcnow()), minutes
    ticks,      \* number of clock advances made so far (bounds the run)
    \* ---- src/main.py : AlertManager and analyze_symbol
    cache,      \* AlertManager.cache: dict cache_key -> isoformat string
    cacheFile,  \* alert_cache.json on disk
    pc,         \* position of the single-threaded driver main()/analyze_symbol
    cur,        \* (symbol, signal_type) analyze_symbol is alerting on
    ret,        \* where save_cache returns to
    chk,        \* ghost: the last can_send_alert call and what it returned
    stamp,      \* ghost: minute at which record_alert last stamped each key
    acc,        \* ghost: per key, when it was last accepted (delivered) and
                \* whether the opposite type was accepted since
    gapEv,      \* ghost: the acceptance just made, measured against the
                \* previous acceptance of the same key
    tfData,     \* ghost: timeframe_data of the latest analyze_symbol cycle
    loadSrc,    \* ghost: what load_cache found on disk, until the ledger is next stamped
    raised,     \* an exception escaped a ledger operation
    saveGhost,  \* ghost: file content before / intended after the running save
    \* ---- src/src/main.py + src/src/signal_detector.py : parallel driver
    cooldowns,    \* SignalDetector.cooldowns: dict cooldown_key -> isoformat
    cooldownFile, \* data/cooldowns.json on disk
    mainPc,       \* position of main_async
    batchStart,   \* i of "for i in range(0, len(coins), batch_size)" (1-based)
    task,         \* per coin: state of its executor task
    res,          \* per coin: what analyze_single_coin returned
    results,      \* the results list (coins whose result is not None)
    idx,          \* loop position of send_consolidated_alert over results
    qualifying,   \* qualifying_alerts
    notifier,     \* TRUE iff telegram_notifier is not None
    sent,         \* outcome of the consolidated delivery of this run
    ledger0,      \* ghost: the ledger as loaded at the start of this run
    \* ---- src/test/indicators/smi_standalone.py : SMIStandalone ledger
    state,        \* SMIStandalone.state: dict state_key -> record
    stateFile,    \* smi_state.json on disk
    sPc,          \* "start" before load_state, then "idle"
    lastCheck,    \* ghost: the last check_cooldown call at the present time and its result
    lastAcc,      \* ghost: per (symbol, signal_type, candle), when last accepted
    reacc,        \* ghost: the latest acceptance of an already accepted triple
    \* ---- src/src/indicators/smi_debug.py : SMIDebug instances on one table
    table,        \* the DynamoDB table smi-15m-test-cooldown: signal_key -> item
    rPc,          \* per instance: position in analyze's check / update
    rCur,         \* per instance: the cross (symbol, signal_type, candle) in hand
    rAccepted,    \* ghost: (instance, cross) pairs appended to valid_crosses
    rFailed,      \* ghost: per instance, a table request of this invocation failed
    \* ---- detect_cross_detailed (smi_debug.py, smi_standalone.py)
    k_prev, d_prev, k_curr, d_curr,   \* the adjacent pair handed to the detector
    cross,        \* what the detector computed for it
    crossTest,    \* what TestSMI.detect_cross_in_candle returned for it
    crossDone,    \* the detector has run
    \* ---- check_last_3_candles (smi_debug.py, smi_standalone.py)
    smi_k, smi_d, \* the %K and %D series handed to the scan
    winI,         \* the loop variable i
    crosses,      \* the list of valid crosses collected so far
    winPc,        \* "start", "loop", "done"
    \* ---- the loop over the timeframes of one symbol
    candleCount,  \* per timeframe: how many candles the fetch returned
    fullSignal,   \* per timeframe: what a long enough series classifies as
    seqIdx,       \* analyze_symbol: position in config.TIMEFRAMES
    seqData,      \* analyze_symbol: timeframe_data (status, or NoData)
    parIdx,       \* analyze_single_coin: position in timeframes
    parData,      \* analyze_single_coin: timeframe_data
    coinLost,     \* analyze_single_coin returned None from its outer except
    \* ---- the Stochastic RSI of the latest bars and its classification
    rsiBars,      \* the RSI per bar, from its first defined value on
    mainEntry,    \* analyze_symbol (src/main.py): the entry of the timeframe
    moduleSignal, \* src/stoch_rsi.py: calculate_stochastic_rsi, then determine_signal
    coinEntry,    \* analyze_single_coin (src/src/main.py): the entry of the timeframe
    barPc,        \* which of the three is to run next
    \* ---- calculate_smi of the three SMI engines
    numerator,    \* emaEma(relativeRange) per position
    denominator,  \* emaEma(highestLowestRange) per position
    smiTest,      \* smi_k of TestSMI.calculate_smi
    smiDebug,     \* smi_k of SMIDebug.calculate_smi
    smiStandalone, \* smi_k of SMIStandalone.calculate_smi
    \* ---- the RSI and the Stochastic RSI series of one close-price series
    closeSeries,  \* the close prices
    mainSeries,   \* src/main.py: the rsi, k and d series of calculate_stochastic_rsi
    tvSeries,     \* src/src/stochastic_rsi.py: the rsi, k and d series
    \* ---- Test15MAnalyzer (test_smi_15m_analyzer.py) on one coin
    analysis,     \* what TestSMI.analyze_15m returned
    coinAlerts,   \* what analyze_coin returned
    sentAlerts,   \* the alerts run() handed to send_telegram
    testPc        \* which of the three is to run next

amVars == <<cache, cacheFile, pc, cur, ret, chk, stamp, acc, gapEv, tfData, loadSrc,
            raised, saveGhost>>
clockVars == <<now, ticks>>
parVars == <<cooldowns, cooldownFile, mainPc, batchStart, task, res, results, idx,
             qualifying, notifier, sent, ledger0>>
candleVars == <<state, stateFile, sPc, lastCheck, lastAcc, reacc>>
raceVars == <<table, rPc, rCur, rAccepted, rFailed>>
crossVars == <<k_prev, d_prev, k_curr, d_curr, cross, crossTest, crossDone>>
winVars == <<smi_k, smi_d, winI, crosses, winPc>>
warmVars == <<candleCount, fullSignal, seqIdx, seqData, parIdx, parData, coinLost>>
barVars == <<rsiBars, mainEntry, moduleSignal, coinEntry, barPc>>
smiVars == <<numerator, denominator, smiTest, smiDebug, smiStandalone>>
rsiVars == <<closeSeries, mainSeries, tvSeries>>
testVars == <<analysis, coinAlerts, sentAlerts, testPc>>
notAM == <<parVars, candleVars, raceVars, crossVars, winVars, warmVars, barVars, smiVars, rsiVars, testVars>>
notPar == <<clockVars, amVars, candleVars, raceVars, crossVars, winVars, warmVars, barVars, smiVars, rsiVars, testVars>>
notCandle == <<amVars, parVars, raceVars, crossVars, winVars, warmVars, barVars, smiVars, rsiVars, testVars>>
notRace == <<clockVars, amVars, parVars, candleVars, crossVars, winVars, warmVars, barVars, smiVars, rsiVars, testVars>>
notCross == <<clockVars, amVars, parVars, candleVars, raceVars, winVars, warmVars, barVars, smiVars, rsiVars, testVars>>
notWin == <<clockVars, amVars, parVars, candleVars, raceVars, crossVars, warmVars, barVars, smiVars, rsiVars, testVars>>
notWarm == <<clockVars, amVars, parVars, candleVars, raceVars, crossVars, winVars, barVars,
            smiVars, rsiVars, testVars>>
notBar == <<clockVars, amVars, parVars, candleVars, raceVars, crossVars, winVars, warmVars,
           smiVars, rsiVars, testVars>>
notSmi == <<clockVars, amVars, parVars, candleVars, raceVars, crossVars, winVars, warmVars,
           barVars, rsiVars, testVars>>
notRsi == <<clockVars, amVars, parVars, candleVars, raceVars, crossVars, winVars, warmVars,
           barVars, smiVars, testVars>>
notTest == <<clockVars, amVars, parVars, candleVars, raceVars, crossVars, winVars, warmVars,
            barVars, smiVars, rsiVars>>

-----------------------------------------------------------------------------
(* Bounds of the model *)

MaxTicks == 3
max_workers == 2

(* Program constants *)

DEFAULT_COOLDOWN == 15
COOLDOWN_HOURS == 4

-----------------------------------------------------------------------------
(* Shared vocabulary *)

OVERBOUGHT == "OVERBOUGHT"
OVERSOLD == "OVERSOLD"
NEUTRAL == "NEUTRAL"
NoData == "NODATA"

SignalTypes == {OVERBOUGHT, OVERSOLD}

Symbols == {"BTC/USDT"}

TIMEFRAMES == {"15m", "1h", "4h", "1d"}
PRIMARY_TIMEFRAME == "15m"

COOLDOWN_PERIODS == [tf \in TIMEFRAMES |->
    CASE tf = "15m" -> 15
      [] tf = "1h"  -> 60
      [] tf = "4h"  -> 240
      [] tf = "1d"  -> 1440]

NoTime == 0 - 1

EmptyDict == [k \in {} |-> 0]

DictSet(d, k, v) == [x \in (DOMAIN d) \cup {k} |-> IF x = k THEN v ELSE d[x]]

\* del d[k] that removes nothing.
DictKeep(d, k) == d

DictDel(d, k) == [x \in (DOMAIN d) \ {k} |-> d[x]]

(* datetime.isoformat(): the minute count rendered as a calendar date and a
   time of day; datetime.fromisoformat() reads the two fields back. *)
IsoFormat(t) == [date |-> t \div (24 * 60), time |-> t % (24 * 60)]

FromIsoFormat(s) == s.date * (24 * 60) + s.time

-----------------------------------------------------------------------------
(* src/main.py : AlertManager *)

\* f"{symbol}_{timeframe}_{signal_type}"
CacheKey(symbol, timeframe, signal_type) == <<symbol, timeframe, signal_type>>

CacheKeys == {CacheKey(s, PRIMARY_TIMEFRAME, t) : s \in Symbols, t \in SignalTypes}

CooldownMinutes(timeframe) ==
    IF timeframe \in DOMAIN COOLDOWN_PERIODS
    THEN COOLDOWN_PERIODS[timeframe]
    ELSE DEFAULT_COOLDOWN

\* The file as json.load sees it: only a completely written file parses.
JsonLoad(file) ==
    IF file.kind = "complete"
    THEN [ok |-> TRUE, value |-> file.data]
    ELSE [ok |-> FALSE, value |-> EmptyDict]

\* load_cache without its try/except: a parse error escapes.
load_cache_unguarded(file) ==
    IF file.kind = "absent"
    THEN [raised |-> FALSE, cache |-> EmptyDict]
    ELSE [raised |-> ~JsonLoad(file).ok, cache |-> JsonLoad(file).value]

load_cache(file) ==
    IF file.kind = "absent"
    THEN [raised |-> FALSE, cache |-> EmptyDict]
    ELSE IF JsonLoad(file).ok
         THEN [raised |-> FALSE, cache |-> JsonLoad(file).value]
         ELSE [raised |-> FALSE, cache |-> EmptyDict]

\* can_send_alert with the boundary excluded (> instead of >=).
can_send_alert_strict(c, symbol, timeframe, signal_type, t) ==
    LET cache_key == CacheKey(symbol, timeframe, signal_type)
    IN  IF cache_key \notin DOMAIN c
        THEN TRUE
        ELSE (t - FromIsoFormat(c[cache_key])) > CooldownMinutes(timeframe)

can_send_alert(c, symbol, timeframe, signal_type, t) ==
    LET cache_key == CacheKey(symbol, timeframe, signal_type)
    IN  IF cache_key \notin DOMAIN c
        THEN TRUE
        ELSE LET last_alert_time == FromIsoFormat(c[cache_key])
                 cooldown_delta == CooldownMinutes(timeframe)
                 time_since_alert == t - last_alert_time
             IN  time_since_alert >= cooldown_delta

\* clear_opposite_signal aimed at the key just recorded.
SameType(signal_type) == signal_type

Opposite(signal_type) == IF signal_type = OVERBOUGHT THEN OVERSOLD ELSE OVERBOUGHT

NoChk == [key |-> <<>>, at |-> NoTime, T |-> NoTime, result |-> TRUE]

NoAcc == [last |-> NoTime, oppSince |-> FALSE]

NoGap == [key |-> <<>>, gap |-> NoTime, flipped |-> FALSE]

\* timeframe_data with the status of the primary timeframe and one status for
\* each of the others; NoData stands for a timeframe that is not in the dict.
TimeframeData(primary, other) ==
    [tf \in TIMEFRAMES |-> IF tf = PRIMARY_TIMEFRAME THEN primary ELSE other]

NoTimeframeData == TimeframeData(NoData, NoData)

Statuses == SignalTypes \cup {NEUTRAL, NoData}

\* The status of the first timeframe that has a signal, whichever it is.
StatusOfAnyTimeframe(timeframe_data) ==
    IF \E tf \in TIMEFRAMES : timeframe_data[tf] \in SignalTypes
    THEN timeframe_data[CHOOSE tf \in TIMEFRAMES : timeframe_data[tf] \in SignalTypes]
    ELSE NEUTRAL

\* primary_data['status'] if config.PRIMARY_TIMEFRAME in timeframe_data
PrimaryStatus(timeframe_data) == timeframe_data[PRIMARY_TIMEFRAME]

AbsentFile == [kind |-> "absent", data |-> EmptyDict]

InitAM ==
    /\ cache = EmptyDict
    /\ cacheFile = AbsentFile
    /\ pc = "start"
    /\ cur = <<>>
    /\ ret = "idle"
    /\ chk = NoChk
    /\ stamp = [k \in CacheKeys |-> NoTime]
    /\ acc = [k \in CacheKeys |-> NoAcc]
    /\ gapEv = NoGap
    /\ tfData = NoTimeframeData
    /\ loadSrc = "none"
    /\ raised = FALSE
    /\ saveGhost = [pre |-> AbsentFile, post |-> AbsentFile]

InitClock == now = 0 /\ ticks = 0

\* AlertManager.__init__: self.cache = self.load_cache()
LoadCache ==
    /\ pc = "start"
    /\ cache' = load_cache(cacheFile).cache
    /\ raised' = (raised \/ load_cache(cacheFile).raised)
    /\ loadSrc' = cacheFile.kind
    /\ pc' = IF load_cache(cacheFile).raised THEN "start" ELSE "idle"
    /\ UNCHANGED <<cacheFile, cur, ret, chk, stamp, acc, gapEv, saveGhost>>
    /\ UNCHANGED tfData
    /\ UNCHANGED <<clockVars, notAM>>

\* analyze_symbol up to the delivery attempt; timeframe_data holds the
\* classification of every timeframe this cycle (NoData: the timeframe is not
\* in timeframe_data).
AnalyzeSymbol(symbol, timeframe_data) ==
    /\ pc = "idle"
    /\ LET status == PrimaryStatus(timeframe_data)
       IN  IF status \in SignalTypes
           THEN LET ok == can_send_alert(cache, symbol, PRIMARY_TIMEFRAME, status, now)
                    key == CacheKey(symbol, PRIMARY_TIMEFRAME, status)
                IN  /\ chk' = [key |-> key, at |-> now, T |-> stamp[key], result |-> ok]
                    /\ IF ok
                       THEN pc' = "send" /\ cur' = <<symbol, status>>
                       ELSE UNCHANGED <<pc, cur>>
           ELSE /\ chk' = NoChk
                /\ UNCHANGED <<pc, cur>>
    /\ gapEv' = NoGap
    /\ tfData' = timeframe_data
    /\ UNCHANGED <<cache, cacheFile, ret, stamp, acc, loadSrc, raised, saveGhost>>
    /\ UNCHANGED <<clockVars, notAM>>

\* The ghost log of accepted alerts: key was accepted at minute t.
Accept(a, key, t) ==
    [k \in DOMAIN a |->
        IF k = key
        THEN [last |-> t, oppSince |-> FALSE]
        ELSE IF k = CacheKey(key[1], key[2], Opposite(key[3])) /\ a[k].last # NoTime
             THEN [a[k] EXCEPT !.oppSince = TRUE]
             ELSE a[k]]

\* How the acceptance of key at minute t stands against the previous one.
GapOf(a, key, t) ==
    IF a[key].last = NoTime
    THEN NoGap
    ELSE [key |-> key, gap |-> t - a[key].last, flipped |-> a[key].oppSince]

\* success = send_telegram_alert(...); record only "if success".
Deliver(success) ==
    /\ pc = "send"
    /\ IF success
       THEN /\ pc' = "record"
            /\ acc' = Accept(acc, CacheKey(cur[1], PRIMARY_TIMEFRAME, cur[2]), now)
            /\ gapEv' = GapOf(acc, CacheKey(cur[1], PRIMARY_TIMEFRAME, cur[2]), now)
            /\ UNCHANGED cur
       ELSE /\ pc' = "idle"
            /\ cur' = <<>>
            /\ UNCHANGED <<acc, gapEv>>
    /\ chk' = NoChk
    /\ UNCHANGED <<cache, cacheFile, ret, stamp, loadSrc, raised, saveGhost>>
    /\ UNCHANGED tfData
    /\ UNCHANGED <<clockVars, notAM>>

\* record_alert: stamp the key, then save_cache().
RecordAlert ==
    /\ pc = "record"
    /\ LET key == CacheKey(cur[1], PRIMARY_TIMEFRAME, cur[2])
       IN  /\ cache' = DictSet(cache, key, IsoFormat(now))
           /\ stamp' = [stamp EXCEPT ![key] = now]
    /\ pc' = "save_open"
    /\ ret' = "clear"
    /\ gapEv' = NoGap
    /\ loadSrc' = "none"
    /\ UNCHANGED <<cacheFile, cur, chk, acc, raised, saveGhost>>
    /\ UNCHANGED tfData
    /\ UNCHANGED <<clockVars, notAM>>

\* clear_opposite_signal: delete the opposite key and save, if it is there.
ClearOpposite ==
    /\ pc = "clear"
    /\ LET opposite_key == CacheKey(cur[1], PRIMARY_TIMEFRAME, Opposite(cur[2]))
       IN  IF opposite_key \in DOMAIN cache
           THEN /\ cache' = DictDel(cache, opposite_key)
                /\ stamp' = [stamp EXCEPT ![opposite_key] = NoTime]
                /\ pc' = "save_open"
                /\ ret' = "idle"
                /\ UNCHANGED cur
           ELSE /\ pc' = "idle"
                /\ cur' = <<>>
                /\ UNCHANGED <<cache, stamp, ret>>
    /\ UNCHANGED <<cacheFile, chk, acc, gapEv, loadSrc, raised, saveGhost>>
    /\ UNCHANGED tfData
    /\ UNCHANGED <<clockVars, notAM>>

\* save_cache, first step: open(self.cache_file, 'w') truncates the file.
SaveOpen ==
    /\ pc = "save_open"
    /\ saveGhost' = [pre |-> cacheFile, post |-> [kind |-> "complete", data |-> cache]]
    /\ cacheFile' = [kind |-> "partial", data |-> EmptyDict]
    /\ pc' = "save_dump"
    /\ UNCHANGED <<cache, cur, ret, chk, stamp, acc, gapEv, loadSrc, raised>>
    /\ UNCHANGED tfData
    /\ UNCHANGED <<clockVars, notAM>>

\* save_cache, json.dump writes the entries one chunk after the other.
SaveWrite(k) ==
    /\ pc = "save_dump"
    /\ k \in (DOMAIN cache) \ (DOMAIN cacheFile.data)
    /\ cacheFile' = [kind |-> "partial", data |-> DictSet(cacheFile.data, k, cache[k])]
    /\ UNCHANGED <<cache, pc, cur, ret, chk, stamp, acc, gapEv, loadSrc, raised,
                   saveGhost>>
    /\ UNCHANGED tfData
    /\ UNCHANGED <<clockVars, notAM>>

\* save_cache, last step: the closing brace is written and the file closed.
SaveClose ==
    /\ pc = "save_dump"
    /\ DOMAIN cacheFile.data = DOMAIN cache
    /\ cacheFile' = [kind |-> "complete", data |-> cacheFile.data]
    /\ pc' = ret
    /\ ret' = "idle"
    /\ cur' = IF ret = "idle" THEN <<>> ELSE cur
    /\ UNCHANGED <<cache, chk, stamp, acc, gapEv, loadSrc, raised, saveGhost>>
    /\ UNCHANGED tfData
    /\ UNCHANGED <<clockVars, notAM>>

\* main() returns; the next scheduled run is a new process.
Exit ==
    /\ pc = "idle"
    /\ pc' = "start"
    /\ cache' = EmptyDict
    /\ chk' = NoChk
    /\ gapEv' = NoGap
    /\ tfData' = NoTimeframeData
    /\ UNCHANGED <<cacheFile, cur, ret, stamp, acc, loadSrc, raised, saveGhost>>
    /\ UNCHANGED <<clockVars, notAM>>

\* The process dies (kill, power loss, runner timeout) wherever it is.
Crash ==
    /\ pc # "start"
    /\ pc' = "start"
    /\ cache' = EmptyDict
    /\ cur' = <<>>
    /\ ret' = "idle"
    /\ chk' = NoChk
    /\ gapEv' = NoGap
    /\ tfData' = NoTimeframeData
    /\ UNCHANGED <<cacheFile, stamp, acc, loadSrc, raised, saveGhost>>
    /\ UNCHANGED <<clockVars, notAM>>

ClockSteps == {1, CooldownMinutes(PRIMARY_TIMEFRAME) - 1}

\* Time passes between any two steps.
Advance(d) ==
    /\ ticks < MaxTicks
    /\ now' = now + d
    /\ ticks' = ticks + 1
    /\ UNCHANGED <<amVars, notAM>>

-----------------------------------------------------------------------------
(* src/src/signal_detector.py : SignalDetector *)

None == "None"

\* config/coins.txt: the base symbols, in file order
CoinList == <<"BTC", "ETH", "SOL">>

NumCoins == Len(CoinList)

\* A coin is named by its position in the list.
Coins == 1..NumCoins

\* f"{symbol}_{signal_type}"
CooldownKey(symbol, signal_type) == <<symbol, signal_type>>

\* A %K / %D value that is None (the scale of real values is 0..100).
NoValue == 0 - 1

\* A classifier that wants both lines beyond the threshold.
classify_signal_both(k_value, d_value) ==
    IF k_value = NoValue \/ d_value = NoValue THEN NEUTRAL
    ELSE IF k_value > 80 /\ d_value > 80 THEN OVERBOUGHT
    ELSE IF k_value < 20 /\ d_value < 20 THEN OVERSOLD
    ELSE NEUTRAL

classify_signal(k_value, d_value) ==
    IF k_value = NoValue \/ d_value = NoValue THEN NEUTRAL
    ELSE IF k_value > 80 \/ d_value > 80 THEN OVERBOUGHT
    ELSE IF k_value < 20 \/ d_value < 20 THEN OVERSOLD
    ELSE NEUTRAL

check_cooldown(cd, symbol, signal_type, t) ==
    LET cooldown_key == CooldownKey(symbol, signal_type)
    IN  IF cooldown_key \in DOMAIN cd
        THEN LET last_alert_time == FromIsoFormat(cd[cooldown_key])
                 cooldown_end == last_alert_time + COOLDOWN_HOURS * 60
             IN  ~(t < cooldown_end)
        ELSE TRUE

should_send_alert(cd, symbol, base_tf_signal, t) ==
    IF base_tf_signal = NEUTRAL
    THEN FALSE
    ELSE check_cooldown(cd, symbol, base_tf_signal, t)

update_cooldown(cd, symbol, signal_type, t) ==
    DictSet(cd, CooldownKey(symbol, signal_type), IsoFormat(t))

\* _load_cooldowns: the file's dict, {} when it is absent or does not parse.
load_cooldowns(file) ==
    IF file.kind = "absent"
    THEN EmptyDict
    ELSE IF JsonLoad(file).ok THEN JsonLoad(file).value ELSE EmptyDict

-----------------------------------------------------------------------------
(* src/src/main.py : the parallel driver *)

\* The %K / %D values a worker may compute for the 15m timeframe.
StochValues == {NoValue, 10, 50, 90}

Min(a, b) == IF a < b THEN a ELSE b

\* coins[i:i + batch_size]
Batch(i) == i .. Min(i + max_workers - 1, NumCoins)

\* The futures are awaited without waiting for them (a missing await).
AllTasksFinished_noWait(tasks) == TRUE

\* "await asyncio.gather(*futures)" and the executor's shutdown at the end of
\* the with block both block until the given tasks have finished.
AllTasksFinished(tasks) == \A c \in tasks : task[c] = "done"

InitPar ==
    /\ cooldowns = EmptyDict
    /\ cooldownFile = AbsentFile
    /\ mainPc = "init"
    /\ batchStart = 1
    /\ task = [c \in Coins |-> "none"]
    /\ res = [c \in Coins |-> None]
    /\ results = <<>>
    /\ idx = 1
    /\ qualifying = <<>>
    /\ notifier = FALSE
    /\ sent = "pending"
    /\ ledger0 = EmptyDict

\* main_async up to the call of analyze_coins_parallel: a new process, a new
\* SignalDetector (loading the ledger), the notifier if credentials are set.
ParStart(configured) ==
    /\ mainPc = "init"
    /\ cooldowns' = load_cooldowns(cooldownFile)
    /\ ledger0' = load_cooldowns(cooldownFile)
    /\ notifier' = configured
    /\ batchStart' = 1
    /\ task' = [c \in Coins |-> "none"]
    /\ res' = [c \in Coins |-> None]
    /\ results' = <<>>
    /\ idx' = 1
    /\ qualifying' = <<>>
    /\ sent' = "pending"
    /\ mainPc' = "submit"
    /\ UNCHANGED cooldownFile
    /\ UNCHANGED notPar

\* loop.run_in_executor(...) for every coin of the batch.
SubmitBatch ==
    /\ mainPc = "submit"
    /\ task' = [c \in Coins |-> IF c \in Batch(batchStart) THEN "running" ELSE task[c]]
    /\ mainPc' = "gather"
    /\ UNCHANGED <<cooldowns, cooldownFile, batchStart, res, results, idx, qualifying,
                   notifier, sent, ledger0>>
    /\ UNCHANGED notPar

\* analyze_single_coin in a pool thread: classifies the 15m values it fetched,
\* or returns None when anything raised. It does not touch the ledger.
WorkerFinish(c, k, d, failed) ==
    /\ task[c] = "running"
    /\ task' = [task EXCEPT ![c] = "done"]
    /\ res' = [res EXCEPT ![c] = IF failed THEN None ELSE classify_signal(k, d)]
    /\ UNCHANGED <<cooldowns, cooldownFile, mainPc, batchStart, results, idx, qualifying,
                   notifier, sent, ledger0>>
    /\ UNCHANGED notPar

RECURSIVE NotNone(_, _)
\* [r for r in batch_results if r is not None], in batch order
NotNone(lo, hi) ==
    IF lo > hi THEN <<>>
    ELSE (IF res[lo] = None THEN <<>> ELSE <<lo>>) \o NotNone(lo + 1, hi)

\* batch_results = await asyncio.gather(*futures); results.extend(...)
GatherBatch ==
    /\ mainPc = "gather"
    /\ AllTasksFinished(Batch(batchStart))
    /\ results' = results \o NotNone(batchStart, Min(batchStart + max_workers - 1, NumCoins))
    /\ mainPc' = IF batchStart + max_workers <= NumCoins THEN "sleep" ELSE "exit_pool"
    /\ UNCHANGED <<cooldowns, cooldownFile, batchStart, task, res, idx, qualifying,
                   notifier, sent, ledger0>>
    /\ UNCHANGED notPar

\* await asyncio.sleep(1), then the next batch
SleepBetweenBatches ==
    /\ mainPc = "sleep"
    /\ batchStart' = batchStart + max_workers
    /\ mainPc' = "submit"
    /\ UNCHANGED <<cooldowns, cooldownFile, task, res, results, idx, qualifying,
                   notifier, sent, ledger0>>
    /\ UNCHANGED notPar

\* Leaving "with ThreadPoolExecutor(...)": shutdown(wait=True); then
\* analyze_coins_parallel returns and main_async calls send_consolidated_alert.
ExitPool ==
    /\ mainPc = "exit_pool"
    /\ AllTasksFinished({c \in Coins : task[c] # "none"})
    /\ mainPc' = "alert"
    /\ idx' = 1
    /\ UNCHANGED <<cooldowns, cooldownFile, batchStart, task, res, results, qualifying,
                   notifier, sent, ledger0>>
    /\ UNCHANGED notPar

\* One iteration of "for result in results" in send_consolidated_alert:
\* should_send_alert, and if it says yes, update_cooldown (which saves).
AlertLoopStep ==
    /\ mainPc = "alert"
    /\ idx <= Len(results)
    /\ LET coin == results[idx]
           base_signal == res[coin]
           base_symbol == CoinList[coin]
       IN  IF should_send_alert(cooldowns, base_symbol, base_signal, now)
           THEN /\ qualifying' = Append(qualifying, coin)
                /\ cooldowns' = update_cooldown(cooldowns, base_symbol, base_signal, now)
                /\ cooldownFile' =
                       [kind |-> "complete",
                        data |-> update_cooldown(cooldowns, base_symbol, base_signal, now)]
           ELSE UNCHANGED <<qualifying, cooldowns, cooldownFile>>
    /\ idx' = idx + 1
    /\ UNCHANGED <<mainPc, batchStart, task, res, results, notifier, sent, ledger0>>
    /\ UNCHANGED notPar

\* The tail of send_consolidated_alert: one message for all qualifying alerts,
\* if there are any and a notifier exists; delivered is what send_message
\* (with a non-empty formatted message) returns.
SendConsolidated(delivered) ==
    /\ mainPc = "alert"
    /\ idx > Len(results)
    /\ sent' = IF qualifying # <<>> /\ notifier
               THEN (IF delivered THEN "ok" ELSE "failed")
               ELSE "none"
    /\ mainPc' = "done"
    /\ UNCHANGED <<cooldowns, cooldownFile, batchStart, task, res, results, idx,
                   qualifying, notifier, ledger0>>
    /\ UNCHANGED notPar

\* The process ends; the scheduler starts the next run later.
ParExit ==
    /\ mainPc = "done"
    /\ mainPc' = "init"
    /\ cooldowns' = EmptyDict
    /\ ledger0' = EmptyDict
    /\ notifier' = FALSE
    /\ batchStart' = 1
    /\ task' = [c \in Coins |-> "none"]
    /\ res' = [c \in Coins |-> None]
    /\ results' = <<>>
    /\ idx' = 1
    /\ qualifying' = <<>>
    /\ sent' = "pending"
    /\ UNCHANGED cooldownFile
    /\ UNCHANGED notPar

\* A run takes seconds against a cooldown of hours: the parallel driver is
\* modelled with the clock standing still (now is the time of every run).
NextPar ==
    \/ \E n \in BOOLEAN : ParStart(n)
    \/ SubmitBatch
    \/ \E c \in Coins, k \in StochValues, d \in StochValues, f \in BOOLEAN :
          WorkerFinish(c, k, d, f)
    \/ GatherBatch
    \/ SleepBetweenBatches
    \/ ExitPool
    \/ AlertLoopStep
    \/ \E ok \in BOOLEAN : SendConsolidated(ok)
    \/ ParExit

-----------------------------------------------------------------------------
(* src/test/indicators/smi_standalone.py : SMIStandalone, the candle-dedup
   ledger with its freshness window and its retention sweep.  Candle times
   are in seconds; the ledger key carries them to the minute. *)

FRESHNESS_MINUTES == 90

RETENTION_DAYS == 7

\* cross_type of a valid cross
CrossTypes == {OVERSOLD, OVERBOUGHT}

CandleSymbols == {"BTC"}

\* Closing times of candles, in seconds.  Two of them fall in the same minute.
CandleTimes == {900, 930, 1800}

Triples == CandleSymbols \X CrossTypes \X CandleTimes

\* candle_timestamp.strftime('%Y-%m-%dT%H:%M:00'): the seconds are dropped.
StrfMinute(candle_timestamp) == candle_timestamp \div 60

\* f"{symbol}_15M_{signal_type}_{ts_str}"
StateKey(symbol, signal_type, candle_timestamp) ==
    <<symbol, "15M", signal_type, StrfMinute(candle_timestamp)>>

\* f"{symbol}_15M_{signal_type}"
StatePrefix(symbol, signal_type) == <<symbol, "15M", signal_type>>

\* key.startswith(prefix)
StartsWith(key, prefix) == SubSeq(key, 1, Len(prefix)) = prefix

\* timedelta.days of the difference of two datetimes
DaysOf(minutes) == minutes \div (24 * 60)

\* check_cooldown without the exact-candle test: only the freshness window.
check_cooldown_standalone_noExact(st, symbol, signal_type, candle_timestamp, t) ==
    ~ \E key \in DOMAIN st :
         /\ StartsWith(key, StatePrefix(symbol, signal_type))
         /\ t - FromIsoFormat(st[key].last_alert_time) < FRESHNESS_MINUTES

\* check_cooldown with the window closed at its far end (<= for <).
check_cooldown_standalone_closed(st, symbol, signal_type, candle_timestamp, t) ==
    /\ StateKey(symbol, signal_type, candle_timestamp) \notin DOMAIN st
    /\ ~ \E key \in DOMAIN st :
           /\ StartsWith(key, StatePrefix(symbol, signal_type))
           /\ t - FromIsoFormat(st[key].last_alert_time) <= FRESHNESS_MINUTES

check_cooldown_standalone(st, symbol, signal_type, candle_timestamp, t) ==
    /\ StateKey(symbol, signal_type, candle_timestamp) \notin DOMAIN st
    /\ ~ \E key \in DOMAIN st :
           /\ StartsWith(key, StatePrefix(symbol, signal_type))
           /\ t - FromIsoFormat(st[key].last_alert_time) < FRESHNESS_MINUTES

StateRecord(symbol, signal_type, candle_timestamp, t) ==
    [symbol |-> symbol, signal_type |-> signal_type,
     candle_timestamp |-> StrfMinute(candle_timestamp),
     last_alert_time |-> IsoFormat(t)]

\* The cleanup loop of update_cooldown: entries older than 7 whole days go.
Sweep(st, t) ==
    LET keep == {key \in DOMAIN st :
                   ~ (DaysOf(t - FromIsoFormat(st[key].last_alert_time)) > RETENTION_DAYS)}
    IN  [key \in keep |-> st[key]]

update_cooldown_standalone(st, symbol, signal_type, candle_timestamp, t) ==
    Sweep(DictSet(st, StateKey(symbol, signal_type, candle_timestamp),
                  StateRecord(symbol, signal_type, candle_timestamp, t)), t)

load_state(file) ==
    IF file.kind # "absent" /\ JsonLoad(file).ok THEN JsonLoad(file).value ELSE EmptyDict

NoCheck == [triple |-> <<>>, result |-> FALSE]

NoReacc == [triple |-> <<>>, gap |-> NoTime]

InitCandle ==
    /\ state = EmptyDict
    /\ stateFile = AbsentFile
    /\ sPc = "start"
    /\ lastCheck = NoCheck
    /\ lastAcc = [tr \in Triples |-> NoTime]
    /\ reacc = NoReacc

\* SMIStandalone.__init__: self.state = self.load_state()
StandaloneLoad ==
    /\ sPc = "start"
    /\ state' = load_state(stateFile)
    /\ sPc' = "idle"
    /\ UNCHANGED <<stateFile, lastCheck, lastAcc, reacc>>
    /\ UNCHANGED <<clockVars, notCandle>>

\* One turn of analyze's loop over the crosses found: check_cooldown and, if
\* it allows, update_cooldown with its sweep and its save_state.
AnalyzeCross(symbol, signal_type, candle_timestamp) ==
    LET tr == <<symbol, signal_type, candle_timestamp>>
        ok == check_cooldown_standalone(state, symbol, signal_type, candle_timestamp, now)
        st2 == update_cooldown_standalone(state, symbol, signal_type, candle_timestamp, now)
    IN  /\ sPc = "idle"
        /\ lastCheck' = [triple |-> tr, result |-> ok]
        /\ IF ok
           THEN /\ state' = st2
                /\ stateFile' = [kind |-> "complete", data |-> st2]
                /\ lastAcc' = [lastAcc EXCEPT ![tr] = now]
                /\ reacc' = IF lastAcc[tr] # NoTime
                            THEN [triple |-> tr, gap |-> now - lastAcc[tr]]
                            ELSE reacc
           ELSE UNCHANGED <<state, stateFile, lastAcc, reacc>>
        /\ UNCHANGED sPc
        /\ UNCHANGED <<clockVars, notCandle>>

\* The script ends; the next run builds a new SMIStandalone.
StandaloneExit ==
    /\ sPc = "idle"
    /\ sPc' = "start"
    /\ state' = EmptyDict
    /\ lastCheck' = NoCheck
    /\ UNCHANGED <<stateFile, lastAcc, reacc>>
    /\ UNCHANGED <<clockVars, notCandle>>

\* One minute, up to the end of the freshness window, up to the retention age.
CandleClockSteps == {1, FRESHNESS_MINUTES - 1, (RETENTION_DAYS + 1) * 24 * 60 - 1}

\* How many times the clock moves in the candle-ledger specification.
MaxCandleTicks == 2

\* Time passes between two runs or two turns of the loop.
AdvanceCandle(d) ==
    /\ ticks < MaxCandleTicks
    /\ now' = now + d
    /\ ticks' = ticks + 1
    /\ lastCheck' = NoCheck
    /\ UNCHANGED <<state, stateFile, sPc, lastAcc, reacc>>
    /\ UNCHANGED notCandle

NextCandle ==
    \/ StandaloneLoad
    \/ \E tr \in Triples : AnalyzeCross(tr[1], tr[2], tr[3])
    \/ StandaloneExit
    \/ \E d \in CandleClockSteps : AdvanceCandle(d)

-----------------------------------------------------------------------------
(* src/src/indicators/smi_debug.py : SMIDebug.  Several invocations of the
   lambda share the DynamoDB table; each request to the table is one step. *)

NumInstances == 2

Instances == 1 .. NumInstances

\* The crosses the invocations may find on the same market data.
RaceCrosses == {<<"BTC", sig, 900>> : sig \in CrossTypes}

\* signal_key = f"{symbol}_15M_{signal_type}_{ts_str}"
SignalKey(symbol, signal_type, candle_timestamp) ==
    <<symbol, "15M", signal_type, StrfMinute(candle_timestamp)>>

\* The item update_cooldown puts.
TableItem(symbol, signal_type, candle_timestamp, t) ==
    [symbol |-> symbol, signal_type |-> signal_type,
     candle_timestamp |-> StrfMinute(candle_timestamp),
     last_alert_time |-> IsoFormat(t),
     ttl |-> t + RETENTION_DAYS * 24 * 60]

\* The scan with begins_with(signal_key, f"{symbol}_15M_{signal_type}") and
\* the age test on each item it returns.
FreshItem(tbl, symbol, signal_type, t) ==
    \E key \in DOMAIN tbl :
       /\ StartsWith(key, StatePrefix(symbol, signal_type))
       /\ t - FromIsoFormat(tbl[key].last_alert_time) < FRESHNESS_MINUTES

InitRace ==
    /\ table = EmptyDict
    /\ rPc = [p \in Instances |-> "idle"]
    /\ rCur = [p \in Instances |-> <<>>]
    /\ rAccepted = {}
    /\ rFailed = [p \in Instances |-> FALSE]

\* analyze: check_last_3_candles returned a valid cross; check_cooldown starts.
RaceBegin(p, cr) ==
    /\ rPc[p] = "idle"
    /\ rPc' = [rPc EXCEPT ![p] = "get_item"]
    /\ rCur' = [rCur EXCEPT ![p] = cr]
    /\ UNCHANGED <<table, rAccepted>>
    /\ rFailed' = [rFailed EXCEPT ![p] = FALSE]
    /\ UNCHANGED notRace

\* check_cooldown, Check 1: table.get_item(Key={'signal_key': ...}).  A failed
\* request lands in the except clause, which returns True.
RaceGetItem(p, fails) ==
    /\ rPc[p] = "get_item"
    /\ rPc' = [rPc EXCEPT ![p] =
                 IF fails THEN "put_item"
                 ELSE IF SignalKey(rCur[p][1], rCur[p][2], rCur[p][3]) \in DOMAIN table
                      THEN "return"
                      ELSE "scan"]
    /\ UNCHANGED <<table, rCur, rAccepted>>
    /\ rFailed' = [rFailed EXCEPT ![p] = rFailed[p] \/ fails]
    /\ UNCHANGED notRace

\* check_cooldown, Check 2: table.scan(...) and the freshness test.
RaceScan(p, fails) ==
    /\ rPc[p] = "scan"
    /\ rPc' = [rPc EXCEPT ![p] =
                 IF fails THEN "put_item"
                 ELSE IF FreshItem(table, rCur[p][1], rCur[p][2], now)
                      THEN "return"
                      ELSE "put_item"]
    /\ UNCHANGED <<table, rCur, rAccepted>>
    /\ rFailed' = [rFailed EXCEPT ![p] = rFailed[p] \/ fails]
    /\ UNCHANGED notRace

\* update_cooldown: table.put_item(Item=...), then valid_crosses.append.
RacePutItem(p, fails) ==
    /\ rPc[p] = "put_item"
    /\ table' = IF fails THEN table
                ELSE DictSet(table, SignalKey(rCur[p][1], rCur[p][2], rCur[p][3]),
                             TableItem(rCur[p][1], rCur[p][2], rCur[p][3], now))
    /\ rAccepted' = rAccepted \cup {<<p, rCur[p]>>}
    /\ rPc' = [rPc EXCEPT ![p] = "return"]
    /\ UNCHANGED rCur
    /\ rFailed' = [rFailed EXCEPT ![p] = rFailed[p] \/ fails]
    /\ UNCHANGED notRace

\* The invocation returns.
RaceReturn(p) ==
    /\ rPc[p] = "return"
    /\ rPc' = [rPc EXCEPT ![p] = "idle"]
    /\ rCur' = [rCur EXCEPT ![p] = <<>>]
    /\ UNCHANGED <<table, rAccepted>>
    /\ UNCHANGED rFailed
    /\ UNCHANGED notRace

NextRace ==
    \/ \E p \in Instances, cr \in RaceCrosses : RaceBegin(p, cr)
    \/ \E p \in Instances : RaceGetItem(p, FALSE)
    \/ \E p \in Instances : RaceScan(p, FALSE)
    \/ \E p \in Instances : RacePutItem(p, FALSE)
    \/ \E p \in Instances : RaceReturn(p)

-----------------------------------------------------------------------------
(* detect_cross_detailed (smi_debug.py; smi_standalone.py has the same body):
   the crossover test on one adjacent pair of (%K, %D) values. *)

SMI_OVERBOUGHT == 40

SMI_OVERSOLD == 0 - 40

\* How far around each zone threshold the %K / %D values range.
Spread == 2

\* float('nan'), which compares false with everything
NaN == 0 - 99999

CrossValues ==
    {SMI_OVERSOLD + i : i \in (0 - Spread) .. Spread}
      \cup {SMI_OVERBOUGHT + i : i \in (0 - Spread) .. Spread}
      \cup {NaN}

IsNaN(x) == x = NaN

\* bearish_cross reading the current %K against the previous %D.
BearishCross_prevD(kp, dp, kc, dc) == (kp >= dp) /\ (kc < dp)

\* bullish_cross = (k_prev <= d_prev) and (k_curr > d_curr)
BullishCross(kp, dp, kc, dc) == (kp <= dp) /\ (kc > dc)

\* bearish_cross = (k_prev >= d_prev) and (k_curr < d_curr)
BearishCross(kp, dp, kc, dc) == (kp >= dp) /\ (kc < dc)

NoCross == [bullish |-> FALSE, bearish |-> FALSE, cross_type |-> None]

\* The detector with the zone test left out: every crossover is an event.
detect_cross_noZone(kp, dp, kc, dc) ==
    IF IsNaN(kp) \/ IsNaN(dp) \/ IsNaN(kc) \/ IsNaN(dc)
    THEN NoCross
    ELSE [bullish |-> BullishCross(kp, dp, kc, dc),
          bearish |-> BearishCross(kp, dp, kc, dc),
          cross_type |-> IF BullishCross(kp, dp, kc, dc) THEN OVERSOLD
                         ELSE IF BearishCross(kp, dp, kc, dc) THEN OVERBOUGHT
                         ELSE None]

\* The detector with the zone not tied to the direction of the crossover.
detect_cross_anyDirection(kp, dp, kc, dc) ==
    IF IsNaN(kp) \/ IsNaN(dp) \/ IsNaN(kc) \/ IsNaN(dc)
    THEN NoCross
    ELSE LET crossed == BullishCross(kp, dp, kc, dc) \/ BearishCross(kp, dp, kc, dc)
         IN  [bullish |-> BullishCross(kp, dp, kc, dc),
              bearish |-> BearishCross(kp, dp, kc, dc),
              cross_type |-> IF crossed /\ kp + kc <= 2 * SMI_OVERSOLD THEN OVERSOLD
                             ELSE IF crossed /\ kp + kc >= 2 * SMI_OVERBOUGHT THEN OVERBOUGHT
                             ELSE None]

\* TestSMI.detect_cross_in_candle: the cross_type of the event it returns, or
\* None.  It picks the type with if / elif.
detect_cross_in_candle(kp, dp, kc, dc) ==
    IF IsNaN(kp) \/ IsNaN(dp) \/ IsNaN(kc) \/ IsNaN(dc)
    THEN None
    ELSE LET bullish_cross == (kp <= dp) /\ (kc > dc)
             bearish_cross == (kp >= dp) /\ (kc < dc)
             in_oversold == kp + kc <= 2 * SMI_OVERSOLD
             in_overbought == kp + kc >= 2 * SMI_OVERBOUGHT
         IN  IF ~bullish_cross /\ ~bearish_cross THEN None
             ELSE IF bullish_cross /\ in_oversold THEN OVERSOLD
             ELSE IF bearish_cross /\ in_overbought THEN OVERBOUGHT
             ELSE None

\* k_at_cross = (k_prev + k_curr) / 2 is compared with a threshold by
\* comparing k_prev + k_curr with twice the threshold.
detect_cross_detailed(kp, dp, kc, dc) ==
    IF IsNaN(kp) \/ IsNaN(dp) \/ IsNaN(kc) \/ IsNaN(dc)
    THEN NoCross
    ELSE LET bullish_cross == BullishCross(kp, dp, kc, dc)
             bearish_cross == BearishCross(kp, dp, kc, dc)
             in_oversold == kp + kc <= 2 * SMI_OVERSOLD
             in_overbought == kp + kc >= 2 * SMI_OVERBOUGHT
         IN  [bullish |-> bullish_cross, bearish |-> bearish_cross,
              cross_type |->
                 IF ~bullish_cross /\ ~bearish_cross THEN None
                 ELSE IF bullish_cross /\ in_oversold THEN OVERSOLD
                 ELSE IF bearish_cross /\ in_overbought THEN OVERBOUGHT
                 ELSE None]

\* No pair has been handed to the detector.
InitCrossIdle ==
    /\ k_prev = NaN /\ d_prev = NaN /\ k_curr = NaN /\ d_curr = NaN
    /\ cross = NoCross
    /\ crossTest = None
    /\ crossDone = FALSE

\* Any adjacent pair of values may come out of calculate_smi.
InitCrossInputs ==
    /\ k_prev \in CrossValues /\ d_prev \in CrossValues
    /\ k_curr \in CrossValues /\ d_curr \in CrossValues
    /\ cross = NoCross
    /\ crossTest = None
    /\ crossDone = FALSE

DetectCross ==
    /\ ~crossDone
    /\ cross' = detect_cross_detailed(k_prev, d_prev, k_curr, d_curr)
    /\ crossTest' = detect_cross_in_candle(k_prev, d_prev, k_curr, d_curr)
    /\ crossDone' = TRUE
    /\ UNCHANGED <<k_prev, d_prev, k_curr, d_curr>>
    /\ UNCHANGED notCross

NextCross == DetectCross

-----------------------------------------------------------------------------
(* check_last_3_candles (smi_debug.py; smi_standalone.py has the same loop):
   the scan of the end of the %K / %D series, one detector call per position.
   Positions are the Python indices 0 .. n-1. *)

\* The longest series handed to the scan.
MaxWin == 4

\* The thresholds around which the series of a scan move.
WinLevels == {SMI_OVERSOLD, SMI_OVERBOUGHT}

\* %K values on either side of a %D at the threshold, or undefined.
WinKValues(level) == {NaN, level - 5, level + 5}

WinDValues(level) == {NaN, level}

\* series[i] with i counted from 0
At(series, i) == series[i + 1]

\* The for loop abandoned at the first position that gives no event.
NextIndex_stopAtNone(i, n, cross_info) ==
    IF cross_info.cross_type = None THEN n ELSE i + 1

\* for i in range(max(1, n - 2), n): the position after i, whatever the
\* detector returned for i.
NextIndex(i, n, cross_info) == i + 1

\* range(max(1, n - 2), n)
FirstIndex(n) == IF n - 2 > 1 THEN n - 2 ELSE 1

\* timestamps[i]: candles of 15 minutes, in seconds
CandleTimestamp(i) == 900 * i

InitWinIdle ==
    /\ smi_k = <<>>
    /\ smi_d = <<>>
    /\ winI = 0
    /\ crosses = <<>>
    /\ winPc = "start"

\* Any two series of the same length may come out of calculate_smi.
InitWinInputs ==
    /\ \E n \in 2 .. MaxWin, level \in WinLevels :
          /\ smi_k \in [1 .. n -> WinKValues(level)]
          /\ smi_d \in [1 .. n -> WinDValues(level)]
    /\ winI = 0
    /\ crosses = <<>>
    /\ winPc = "start"

\* check_last_3_candles up to the loop: fewer than 3 values return [].
CheckLast3Start ==
    /\ winPc = "start"
    /\ IF Len(smi_k) < 3
       THEN winPc' = "done" /\ UNCHANGED winI
       ELSE winPc' = "loop" /\ winI' = FirstIndex(Len(smi_k))
    /\ UNCHANGED <<smi_k, smi_d, crosses>>
    /\ UNCHANGED notWin

\* One turn of the loop: the detector on positions i-1 and i, then append.
CheckLast3Step ==
    /\ winPc = "loop"
    /\ winI < Len(smi_k)
    /\ LET cross_info == detect_cross_detailed(At(smi_k, winI - 1), At(smi_d, winI - 1),
                                               At(smi_k, winI), At(smi_d, winI))
       IN  /\ crosses' = IF cross_info.cross_type # None
                         THEN Append(crosses,
                                     [candle_index |-> winI,
                                      candle_timestamp |-> CandleTimestamp(winI),
                                      cross_type |-> cross_info.cross_type])
                         ELSE crosses
           /\ winI' = NextIndex(winI, Len(smi_k), cross_info)
    /\ UNCHANGED <<smi_k, smi_d, winPc>>
    /\ UNCHANGED notWin

\* return crosses
CheckLast3Return ==
    /\ winPc = "loop"
    /\ winI >= Len(smi_k)
    /\ winPc' = "done"
    /\ UNCHANGED <<smi_k, smi_d, winI, crosses>>
    /\ UNCHANGED notWin

NextWin ==
    \/ CheckLast3Start
    \/ CheckLast3Step
    \/ CheckLast3Return

-----------------------------------------------------------------------------
(* The loop over the timeframes of one symbol, in analyze_symbol (src/main.py)
   and in analyze_single_coin (src/src/main.py): how many candles came back
   for a timeframe decides whether it is classified. *)

SMOOTH_K == 3

SMOOTH_D == 3

LENGTH_RSI == 14

LENGTH_STOCH == 14

MIN_CANDLES_REQUIRED == 50

\* get_latest_stoch_rsi: min_required = rsi_length + stoch_length + smooth_k + smooth_d + 10
MinRequired == LENGTH_RSI + LENGTH_STOCH + SMOOTH_K + SMOOTH_D + 10

\* The first length at which the last %D is defined: the RSI needs
\* LENGTH_RSI values (gain and loss are 0.0 at the first one), the rolling
\* window LENGTH_STOCH of those, and each mean its window; consecutive windows
\* share one position.
WarmUp == LENGTH_RSI + LENGTH_STOCH + SMOOTH_K + SMOOTH_D - 3

\* config.TIMEFRAMES, in order
TimeframeSeq == <<"15m", "1h", "4h", "1d">>

\* Numbers of candles a fetch may return; 0 stands for None or an empty list.
CandleCounts == {0, WarmUp - 1, MinRequired - 1, MinRequired, MIN_CANDLES_REQUIRED}

\* calculate_stochastic_rsi (src/main.py) on n candles whose full series
\* classifies as signal: None while the last %K or %D is still NaN.
StochRsiOrNone(n, signal) == IF n < WarmUp THEN None ELSE signal

\* One turn of analyze_symbol's loop: the status stored for the timeframe, or
\* NoData when the turn ends with "continue".
TimeframeStatus(n, signal) ==
    IF n = 0 \/ n < MIN_CANDLES_REQUIRED THEN NoData
    ELSE IF StochRsiOrNone(n, signal) = None THEN NoData
    ELSE signal

\* One turn of analyze_single_coin's loop with the inner try / except left
\* out: the ValueError of get_latest_stoch_rsi leaves the loop.
ParTimeframeEntry_unguarded(n, signal) ==
    IF n = 0 THEN [raised |-> FALSE, has_values |-> FALSE, signal |-> NEUTRAL]
    ELSE IF n < MinRequired THEN [raised |-> TRUE, has_values |-> FALSE, signal |-> NEUTRAL]
    ELSE [raised |-> FALSE, has_values |-> TRUE, signal |-> signal]

\* One turn of analyze_single_coin's loop: the entry stored for the timeframe
\* ({'k': None, 'd': None, 'signal': 'NEUTRAL'} without data or after the
\* ValueError), and whether an exception leaves the loop.
ParTimeframeEntry(n, signal) ==
    IF n = 0 THEN [raised |-> FALSE, has_values |-> FALSE, signal |-> NEUTRAL]
    ELSE IF n < MinRequired THEN [raised |-> FALSE, has_values |-> FALSE, signal |-> NEUTRAL]
    ELSE [raised |-> FALSE, has_values |-> TRUE, signal |-> signal]

NoEntry == [raised |-> FALSE, has_values |-> FALSE, signal |-> None]

InitWarmIdle ==
    /\ candleCount = [tf \in TIMEFRAMES |-> 0]
    /\ fullSignal = [tf \in TIMEFRAMES |-> NEUTRAL]
    /\ seqIdx = 1
    /\ seqData = NoTimeframeData
    /\ parIdx = 1
    /\ parData = [tf \in TIMEFRAMES |-> NoEntry]
    /\ coinLost = FALSE

\* Any number of candles per timeframe, any classification of the full series.
InitWarmInputs ==
    /\ candleCount \in [TIMEFRAMES -> CandleCounts]
    /\ fullSignal \in [TIMEFRAMES -> {OVERBOUGHT, NEUTRAL}]
    /\ seqIdx = 1
    /\ seqData = NoTimeframeData
    /\ parIdx = 1
    /\ parData = [tf \in TIMEFRAMES |-> NoEntry]
    /\ coinLost = FALSE

\* analyze_symbol: one turn of "for timeframe in config.TIMEFRAMES".
SeqTimeframe ==
    /\ seqIdx <= Len(TimeframeSeq)
    /\ LET tf == TimeframeSeq[seqIdx]
       IN  seqData' = [seqData EXCEPT
                         ![tf] = TimeframeStatus(candleCount[tf], fullSignal[tf])]
    /\ seqIdx' = seqIdx + 1
    /\ UNCHANGED <<candleCount, fullSignal, parIdx, parData, coinLost>>
    /\ UNCHANGED notWarm

\* analyze_single_coin: one turn of "for tf in timeframes"; an exception that
\* leaves the loop ends in the outer except, which returns None for the coin.
ParTimeframe ==
    /\ seqIdx > Len(TimeframeSeq)
    /\ parIdx <= Len(TimeframeSeq)
    /\ ~coinLost
    /\ LET tf == TimeframeSeq[parIdx]
           entry == ParTimeframeEntry(candleCount[tf], fullSignal[tf])
       IN  IF entry.raised
           THEN coinLost' = TRUE /\ UNCHANGED <<parData, parIdx>>
           ELSE /\ parData' = [parData EXCEPT ![tf] = entry]
                /\ parIdx' = parIdx + 1
                /\ UNCHANGED coinLost
    /\ UNCHANGED <<candleCount, fullSignal, seqIdx, seqData>>
    /\ UNCHANGED notWarm

NextWarm ==
    \/ SeqTimeframe
    \/ ParTimeframe

-----------------------------------------------------------------------------
(* The Stochastic RSI of one timeframe and the status the timeframe is given:
   calculate_stochastic_rsi and determine_signal (src/main.py,
   src/stoch_rsi.py), get_latest_stoch_rsi (src/src/stochastic_rsi.py) and
   classify_signal.  The input is the RSI series from its first defined value
   on; the series is long enough for every length check.  %K and %D are whole
   numbers of percent on the series the model starts from, as round(x, 2)
   leaves them. *)

BarLen == 4

OVERBOUGHT_LEVEL == 80

OVERSOLD_LEVEL == 20

\* Float arithmetic on the elements of a pandas Series.
Inf == 0 - 88888

FloatSub(x, y) == IF IsNaN(x) \/ IsNaN(y) THEN NaN ELSE x - y

FloatDiv(x, y) ==
    IF IsNaN(x) \/ IsNaN(y) THEN NaN
    ELSE IF y = 0 THEN (IF x = 0 THEN NaN ELSE Inf)
    ELSE x \div y

SetMin(S) == CHOOSE x \in S : \A y \in S : x <= y

SetMax(S) == CHOOSE x \in S : \A y \in S : y <= x

\* series.rolling(window=length, min_periods=length).min() at position i
RollingMin(series, length, i) ==
    IF i < length \/ \E j \in (i - length + 1)..i : IsNaN(series[j])
    THEN NaN
    ELSE SetMin({series[j] : j \in (i - length + 1)..i})

\* series.rolling(window=length, min_periods=length).max() at position i
RollingMax(series, length, i) ==
    IF i < length \/ \E j \in (i - length + 1)..i : IsNaN(series[j])
    THEN NaN
    ELSE SetMax({series[j] : j \in (i - length + 1)..i})

\* 100 * (src - lowest_low) / (highest_high - lowest_low) at position i
StochRatio(src, length, i) ==
    LET lowest_low == RollingMin(src, length, i)
        highest_high == RollingMax(src, length, i)
        diff == FloatSub(src[i], lowest_low)
    IN  FloatDiv(IF IsNaN(diff) THEN NaN ELSE 100 * diff,
                 FloatSub(highest_high, lowest_low))

\* calculate_stoch (src/main.py): stoch.replace([np.inf, -np.inf], np.nan)
calculate_stoch(src, length) ==
    [i \in DOMAIN src |->
        LET stoch == StochRatio(src, length, i)
        IN  IF stoch = Inf THEN NaN ELSE stoch]

\* calculate_stochastic_tradingview: stoch.replace([np.inf, -np.inf], 0)
calculate_stochastic_tradingview(values, period) ==
    [i \in DOMAIN values |->
        LET stoch == StochRatio(values, period, i)
        IN  IF stoch = Inf THEN 0 ELSE stoch]

RECURSIVE SeriesSum(_, _, _)
SeriesSum(series, from, to) ==
    IF from > to THEN 0 ELSE series[from] + SeriesSum(series, from + 1, to)

\* The sums that series.rolling(window=window, min_periods=window).mean()
\* divides by window.
RollingSum(series, window) ==
    [i \in DOMAIN series |->
        IF i < window \/ \E j \in (i - window + 1)..i : IsNaN(series[j])
        THEN NaN
        ELSE SeriesSum(series, i - window + 1, i)]

\* k = stoch_rsi.rolling(smooth_k).mean(), d = k.rolling(smooth_d).mean():
\* the sums of the raw stochastic that %K and %D are the means of.
SmoothedSums(stoch_rsi, smooth_k, smooth_d) ==
    LET k == RollingSum(stoch_rsi, smooth_k)
    IN  [k |-> k, d |-> RollingSum(k, smooth_d)]

FloatMean(sum, count) == IF IsNaN(sum) THEN NaN ELSE sum \div count

IsWhole(sum, count) == IsNaN(sum) \/ sum % count = 0

\* A result without values: None, or {'k': None, 'd': None}.
NoStochRsi == [k |-> NoValue, d |-> NoValue]

\* calculate_stochastic_rsi (src/main.py): the %K and %D of the last bar, None
\* when either is NaN.
calculate_stochastic_rsi(rsi1, length_stoch, smooth_k, smooth_d) ==
    LET stoch_rsi == calculate_stoch(rsi1, length_stoch)
        sums == SmoothedSums(stoch_rsi, smooth_k, smooth_d)
        k_last == FloatMean(sums.k[Len(rsi1)], smooth_k)
        d_last == FloatMean(sums.d[Len(rsi1)], smooth_k * smooth_d)
        k_current == IF ~IsNaN(k_last) THEN k_last ELSE NoValue
        d_current == IF ~IsNaN(d_last) THEN d_last ELSE NoValue
    IN  IF k_current = NoValue \/ d_current = NoValue
        THEN NoStochRsi
        ELSE [k |-> k_current, d |-> d_current]

\* calculate_stochastic_rsi (src/stoch_rsi.py): the same steps, with that
\* module's calculate_stoch, which also replaces an infinite ratio by NaN.
stoch_rsi_calculate_stochastic_rsi(rsi1, length_stoch, smooth_k, smooth_d) ==
    LET stoch_rsi == calculate_stoch(rsi1, length_stoch)
        sums == SmoothedSums(stoch_rsi, smooth_k, smooth_d)
        k_last == FloatMean(sums.k[Len(rsi1)], smooth_k)
        d_last == FloatMean(sums.d[Len(rsi1)], smooth_k * smooth_d)
        k_current == IF ~IsNaN(k_last) THEN k_last ELSE NoValue
        d_current == IF ~IsNaN(d_last) THEN d_last ELSE NoValue
    IN  IF k_current = NoValue \/ d_current = NoValue
        THEN NoStochRsi
        ELSE [k |-> k_current, d |-> d_current]

determine_signal_strict(k_value, d_value, overbought, oversold) ==
    IF k_value > overbought /\ d_value > overbought THEN OVERBOUGHT
    ELSE IF k_value < oversold /\ d_value < oversold THEN OVERSOLD
    ELSE NEUTRAL

\* determine_signal (src/main.py)
determine_signal(k_value, d_value, overbought, oversold) ==
    IF k_value >= overbought /\ d_value >= overbought THEN OVERBOUGHT
    ELSE IF k_value <= oversold /\ d_value <= oversold THEN OVERSOLD
    ELSE NEUTRAL

\* determine_signal (src/stoch_rsi.py)
stoch_rsi_determine_signal(k_value, d_value, overbought, oversold) ==
    IF k_value >= overbought /\ d_value >= overbought THEN OVERBOUGHT
    ELSE IF k_value <= oversold /\ d_value <= oversold THEN OVERSOLD
    ELSE NEUTRAL

\* The bars at which both %K and %D are defined.
ValidBarsOf(sums) == {i \in DOMAIN sums.k : ~IsNaN(sums.k[i]) /\ ~IsNaN(sums.d[i])}

\* get_latest_stoch_rsi: the %K and %D of the latest bar at which both are
\* defined, found by walking back from the last bar; None for both when no bar
\* has them.
get_latest_stoch_rsi(rsi, smooth_k, smooth_d, stoch_length) ==
    LET stoch_rsi == calculate_stochastic_tradingview(rsi, stoch_length)
        sums == SmoothedSums(stoch_rsi, smooth_k, smooth_d)
        valid == ValidBarsOf(sums)
    IN  IF valid = {}
        THEN NoStochRsi
        ELSE LET i == SetMax(valid)
             IN  [k |-> FloatMean(sums.k[i], smooth_k),
                  d |-> FloatMean(sums.d[i], smooth_k * smooth_d)]

\* An entry of timeframe_data; status NoData when the timeframe has none.
TimeframeEntry(k, d, status) == [k |-> k, d |-> d, status |-> status]

NoTimeframeEntry == TimeframeEntry(NoValue, NoValue, NoData)

\* RSI values of the series the model starts from.
RsiValues == {10, 20, 50, 60}

\* Numbers of closing bars that repeat the RSI of the bar before them (the
\* price has stopped moving): none, one, and enough to fill a rolling window.
TailLens == {0, 1, LENGTH_STOCH - 1, LENGTH_STOCH}

\* An RSI series: LENGTH_STOCH - 2 bars at 20, then 10, 60 and 20 (the rolling
\* window is full from the bar at 60 on), then the recent bars, then the
\* closing bars.
RsiSeries(recent, tail) ==
    [i \in 1..(LENGTH_STOCH - 2) |-> 20] \o <<10, 60, 20>> \o recent
        \o [i \in 1..tail |-> recent[Len(recent)]]

\* The %K and %D that the drivers read off the series (those of the last bar
\* and of the latest bar where both are defined) are whole numbers.
WholePercent(rsi) ==
    LET sums == SmoothedSums(calculate_stoch(rsi, LENGTH_STOCH), SMOOTH_K, SMOOTH_D)
    IN  \A i \in {Len(rsi)} \cup
                 (IF ValidBarsOf(sums) = {} THEN {} ELSE {SetMax(ValidBarsOf(sums))}) :
            /\ IsWhole(sums.k[i], SMOOTH_K)
            /\ IsWhole(sums.d[i], SMOOTH_K * SMOOTH_D)

InitBarIdle ==
    /\ rsiBars = <<>>
    /\ mainEntry = NoTimeframeEntry
    /\ moduleSignal = None
    /\ coinEntry = NoTimeframeEntry
    /\ barPc = "done"

\* An RSI series that never moves: the price stopped moving before the first
\* defined RSI.
FlatRsiSeries(value) == [i \in 1..(LENGTH_STOCH + 1 + BarLen) |-> value]

InitBarInputs ==
    /\ \/ \E recent \in [1..BarLen -> RsiValues], tail \in TailLens :
             rsiBars = RsiSeries(recent, tail)
       \/ \E value \in RsiValues : rsiBars = FlatRsiSeries(value)
    /\ WholePercent(rsiBars)
    /\ mainEntry = NoTimeframeEntry
    /\ moduleSignal = None
    /\ coinEntry = NoTimeframeEntry
    /\ barPc = "main"

\* analyze_symbol (src/main.py), one turn of the loop with enough candles:
\* "continue" without an entry when calculate_stochastic_rsi returns None.
MainTimeframe ==
    /\ barPc = "main"
    /\ LET stoch_rsi == calculate_stochastic_rsi(rsiBars, LENGTH_STOCH, SMOOTH_K, SMOOTH_D)
       IN  mainEntry' =
              IF stoch_rsi = NoStochRsi
              THEN NoTimeframeEntry
              ELSE TimeframeEntry(stoch_rsi.k, stoch_rsi.d,
                      determine_signal(stoch_rsi.k, stoch_rsi.d,
                                       OVERBOUGHT_LEVEL, OVERSOLD_LEVEL))
    /\ barPc' = "module"
    /\ UNCHANGED <<rsiBars, moduleSignal, coinEntry>>
    /\ UNCHANGED notBar

\* src/stoch_rsi.py: determine_signal with its default thresholds on what
\* calculate_stochastic_rsi, with its default lengths, returned.
ModuleSignal ==
    /\ barPc = "module"
    /\ LET stoch_rsi == stoch_rsi_calculate_stochastic_rsi(rsiBars, 14, 3, 3)
       IN  moduleSignal' =
              IF stoch_rsi = NoStochRsi
              THEN None
              ELSE stoch_rsi_determine_signal(stoch_rsi.k, stoch_rsi.d, 80, 20)
    /\ barPc' = "coin"
    /\ UNCHANGED <<rsiBars, mainEntry, coinEntry>>
    /\ UNCHANGED notBar

\* analyze_single_coin (src/src/main.py), one turn of the loop with enough
\* candles: the entry holds what get_latest_stoch_rsi returned and its class.
CoinTimeframe ==
    /\ barPc = "coin"
    /\ LET stoch_data == get_latest_stoch_rsi(rsiBars, 3, 3, 14)
           k == stoch_data.k
           d == stoch_data.d
           signal == classify_signal(k, d)
       IN  coinEntry' = TimeframeEntry(k, d, signal)
    /\ barPc' = "done"
    /\ UNCHANGED <<rsiBars, mainEntry, moduleSignal>>
    /\ UNCHANGED notBar

NextBar ==
    \/ MainTimeframe
    \/ ModuleSignal
    \/ CoinTimeframe

-----------------------------------------------------------------------------
(* calculate_smi of the three SMI engines (test_smi_indicator.py, smi_debug.py,
   smi_standalone.py): the step from the two double-EMA series to %K.  The
   numerator and the denominator are counted in units of 1e-10; their ratio,
   and so %K, does not depend on the unit.  %D, an EMA of %K, is not needed
   by the properties below and is left out. *)

SmiLen == 2

\* valid_mask: np.abs(denominator) > 1e-10
EPSILON == 1

SmiAbs(x) == IF x < 0 THEN 0 - x ELSE x

\* 200 * (numerator / denominator), element by element
SmiRatio(num, den) ==
    LET q == FloatDiv(num, den)
    IN  IF IsNaN(q) \/ q = Inf THEN q ELSE (200 * num) \div den

\* TestSMI.calculate_smi: np.full_like(close, np.nan), filled where the
\* denominator is not NaN and larger than 1e-10 in size.
TestSMI_calculate_smi(num, den) ==
    [i \in DOMAIN den |->
        IF ~IsNaN(den[i]) /\ SmiAbs(den[i]) > EPSILON
        THEN SmiRatio(num[i], den[i])
        ELSE NaN]

\* SMIDebug.calculate_smi: np.zeros_like(close), filled where denominator != 0
\* (which is true of NaN).
SMIDebug_calculate_smi(num, den) ==
    [i \in DOMAIN den |->
        IF den[i] # 0 THEN SmiRatio(num[i], den[i]) ELSE 0]

\* SMIStandalone.calculate_smi: the same lines as SMIDebug's.
SMIStandalone_calculate_smi(num, den) ==
    [i \in DOMAIN den |->
        IF den[i] # 0 THEN SmiRatio(num[i], den[i]) ELSE 0]

\* Values of the double EMA of the range at one position: NaN while the rolling
\* window of the range is not full, 0 while every range so far was 0.
Denominators == {NaN, 0, 1, 2, 4}

\* The relative range is at most half the range in size, and so are their
\* double EMAs; both are NaN at the same positions.
Numerators(den) ==
    IF IsNaN(den) THEN {NaN} ELSE {n \in (0 - 2)..2 : 2 * SmiAbs(n) <= den}

\* An EMA that has a value keeps having one, and one that is positive stays
\* positive.
ValidDenominators(den) ==
    \A i \in DOMAIN den, j \in DOMAIN den :
        i < j => /\ (~IsNaN(den[i]) => ~IsNaN(den[j]))
                 /\ ((~IsNaN(den[i]) /\ den[i] > 0) => den[j] > 0)

NotComputed == <<>>

InitSmiIdle ==
    /\ numerator = <<>>
    /\ denominator = <<>>
    /\ smiTest = NotComputed
    /\ smiDebug = NotComputed
    /\ smiStandalone = NotComputed

InitSmiInputs ==
    /\ denominator \in [1..SmiLen -> Denominators]
    /\ ValidDenominators(denominator)
    /\ numerator \in [1..SmiLen -> (0 - 2)..2 \cup {NaN}]
    /\ \A i \in 1..SmiLen : numerator[i] \in Numerators(denominator[i])
    /\ smiTest = NotComputed
    /\ smiDebug = NotComputed
    /\ smiStandalone = NotComputed

CalculateSmiTest ==
    /\ numerator # <<>>
    /\ smiTest = NotComputed
    /\ smiTest' = TestSMI_calculate_smi(numerator, denominator)
    /\ UNCHANGED <<numerator, denominator, smiDebug, smiStandalone>>
    /\ UNCHANGED notSmi

CalculateSmiDebug ==
    /\ numerator # <<>>
    /\ smiDebug = NotComputed
    /\ smiDebug' = SMIDebug_calculate_smi(numerator, denominator)
    /\ UNCHANGED <<numerator, denominator, smiTest, smiStandalone>>
    /\ UNCHANGED notSmi

CalculateSmiStandalone ==
    /\ numerator # <<>>
    /\ smiStandalone = NotComputed
    /\ smiStandalone' = SMIStandalone_calculate_smi(numerator, denominator)
    /\ UNCHANGED <<numerator, denominator, smiTest, smiDebug>>
    /\ UNCHANGED notSmi

NextSmi ==
    \/ CalculateSmiTest
    \/ CalculateSmiDebug
    \/ CalculateSmiStandalone

-----------------------------------------------------------------------------
(* calculate_rsi (src/main.py) and calculate_rsi_tradingview
   (src/src/stochastic_rsi.py) on a close-price series, and the %K and %D
   series computed from them.  The series the model starts from never move
   both up and down, so each Wilder average is either exactly zero or above
   zero, and the RSI is exactly NaN, 0 or 100. *)

MaxStep == 1

\* An average above zero (its size does not matter to the RSI where the other
\* average is zero), and an RSI strictly between 0 and 100.
Positive == 0 - 55555

Mid == 0 - 77777

\* src.diff()
Diff(src) == [i \in DOMAIN src |-> IF i = 1 THEN NaN ELSE src[i] - src[i - 1]]

\* delta.where(delta > 0, 0.0): 0.0 also where delta is NaN
Gain(delta) ==
    [i \in DOMAIN delta |-> IF ~IsNaN(delta[i]) /\ delta[i] > 0 THEN delta[i] ELSE 0]

\* -delta.where(delta < 0, 0.0)
Loss(delta) ==
    [i \in DOMAIN delta |-> IF ~IsNaN(delta[i]) /\ delta[i] < 0 THEN 0 - delta[i] ELSE 0]

\* series.ewm(alpha=1/length, min_periods=length, adjust=False).mean() of a
\* series without negative values: zero as long as every value so far is zero.
EwmMean(series, length) ==
    [i \in DOMAIN series |->
        IF i < length THEN NaN
        ELSE IF \E j \in 1..i : series[j] > 0 THEN Positive ELSE 0]

\* rs = avg_gain / avg_loss
RelativeStrength(avg_gain, avg_loss) ==
    IF IsNaN(avg_gain) \/ IsNaN(avg_loss) THEN NaN
    ELSE IF avg_loss = 0 THEN (IF avg_gain = 0 THEN NaN ELSE Inf)
    ELSE IF avg_gain = 0 THEN 0 ELSE Mid

\* rsi = 100 - (100 / (1 + rs))
RsiOfRs(rs) ==
    IF IsNaN(rs) THEN NaN
    ELSE IF rs = Inf THEN 100
    ELSE IF rs = 0 THEN 0 ELSE Mid

\* calculate_rsi (src/main.py)
calculate_rsi(src, length) ==
    LET delta == Diff(src)
        avg_gain == EwmMean(Gain(delta), length)
        avg_loss == EwmMean(Loss(delta), length)
    IN  [i \in DOMAIN src |-> RsiOfRs(RelativeStrength(avg_gain[i], avg_loss[i]))]

\* calculate_rsi_tradingview: rs.replace([np.inf, -np.inf], np.nan)
calculate_rsi_tradingview(close, period) ==
    LET delta == Diff(close)
        avg_gain == EwmMean(Gain(delta), period)
        avg_loss == EwmMean(Loss(delta), period)
    IN  [i \in DOMAIN close |->
            LET rs == RelativeStrength(avg_gain[i], avg_loss[i])
            IN  RsiOfRs(IF rs = Inf THEN NaN ELSE rs)]

\* The means of the sums, position by position.
MeanSeries(sums, count) == [i \in DOMAIN sums |-> FloatMean(sums[i], count)]

\* calculate_stochastic_rsi (src/main.py), steps 1 to 4: the rsi, k and d
\* series.
main_stochastic_rsi_series(close_prices, length_rsi, length_stoch, smooth_k, smooth_d) ==
    LET rsi1 == calculate_rsi(close_prices, length_rsi)
        sums == SmoothedSums(calculate_stoch(rsi1, length_stoch), smooth_k, smooth_d)
    IN  [rsi |-> rsi1,
         k |-> MeanSeries(sums.k, smooth_k),
         d |-> MeanSeries(sums.d, smooth_k * smooth_d)]

\* calculate_stochastic_rsi (src/src/stochastic_rsi.py): the k and d series
\* it returns, and the rsi series they come from.
tv_calculate_stochastic_rsi(close, smooth_k, smooth_d, rsi_length, stoch_length) ==
    LET rsi == calculate_rsi_tradingview(close, rsi_length)
        sums == SmoothedSums(calculate_stochastic_tradingview(rsi, stoch_length),
                             smooth_k, smooth_d)
    IN  [rsi |-> rsi,
         k |-> MeanSeries(sums.k, smooth_k),
         d |-> MeanSeries(sums.d, smooth_k * smooth_d)]

\* Lengths of the close-price series: below, at and above each warm-up step.
CloseLengths == {1, LENGTH_RSI, WarmUp - 1, WarmUp, 3 * LENGTH_RSI}

\* A close-price series that moves in one direction only: by step * first at
\* each of the first p bars after the first one, by step * second afterwards.
MonotoneSeries(n, step, first, second, p) ==
    [i \in 1..n |->
        1000 + step * (first * (IF i - 1 <= p THEN i - 1 ELSE p)
                       + second * (IF i - 1 <= p THEN 0 ELSE i - 1 - p))]

NoSeries == [rsi |-> <<>>, k |-> <<>>, d |-> <<>>]

InitRsiIdle ==
    /\ closeSeries = <<>>
    /\ mainSeries = NoSeries
    /\ tvSeries = NoSeries

InitRsiInputs ==
    /\ \E n \in CloseLengths, size \in 1..MaxStep, dir \in {0 - 1, 1},
          first \in {0, 1}, second \in {0, 1}, p \in {0, 1, LENGTH_RSI, 2 * LENGTH_RSI} :
          closeSeries = MonotoneSeries(n, dir * size, first, second, p)
    /\ mainSeries = NoSeries
    /\ tvSeries = NoSeries

\* src/main.py: calculate_stochastic_rsi with the lengths of config.py
CalcMainSeries ==
    /\ closeSeries # <<>>
    /\ mainSeries = NoSeries
    /\ mainSeries' = main_stochastic_rsi_series(closeSeries, LENGTH_RSI, LENGTH_STOCH,
                                                SMOOTH_K, SMOOTH_D)
    /\ UNCHANGED <<closeSeries, tvSeries>>
    /\ UNCHANGED notRsi

\* src/src/stochastic_rsi.py: calculate_stochastic_rsi with its default lengths
CalcTvSeries ==
    /\ closeSeries # <<>>
    /\ tvSeries = NoSeries
    /\ tvSeries' = tv_calculate_stochastic_rsi(closeSeries, 3, 3, 14, 14)
    /\ UNCHANGED <<closeSeries, mainSeries>>
    /\ UNCHANGED notRsi

NextRsi ==
    \/ CalcMainSeries
    \/ CalcTvSeries

-----------------------------------------------------------------------------
(* The three file-backed ledgers under operations for two symbols: AlertManager
   (src/main.py), SignalDetector (src/src/signal_detector.py) and SMIStandalone
   (src/test/indicators/smi_standalone.py).  Each ledger is what its
   constructor loads when there is no file, the empty dict, and a behaviour
   works on one of the three, as each driver has a ledger of its own. *)

FrameSymbols == {"BTC", "ETH"}

\* Closing times of the candles handed to SMIStandalone, in seconds.
FrameCandles == {900, 1800}

\* One minute, and the age from which the retention sweep removes a record.
FrameClockSteps == {1, (RETENTION_DAYS + 1) * 24 * 60}

\* record_alert: self.cache[cache_key] = datetime.now().isoformat()
record_alert(c, symbol, timeframe, signal_type, t) ==
    DictSet(c, CacheKey(symbol, timeframe, signal_type), IsoFormat(t))

\* A clear that drops the opposite record of every symbol.
clear_opposite_signal_all(c, symbol, timeframe, signal_type) ==
    [key \in {x \in DOMAIN c : x[3] # Opposite(signal_type)} |-> c[key]]

\* clear_opposite_signal: del self.cache[opposite_key] if it is there
clear_opposite_signal(c, symbol, timeframe, signal_type) ==
    LET opposite_key == CacheKey(symbol, timeframe, Opposite(signal_type))
    IN  IF opposite_key \in DOMAIN c THEN DictDel(c, opposite_key) ELSE c

\* analyze_symbol on a primary status: can_send_alert and, for a delivered
\* alert, record_alert and clear_opposite_signal with their saves.
FrameAlert(symbol, signal_type) ==
    /\ cooldowns = EmptyDict /\ state = EmptyDict
    /\ cur' = <<symbol, signal_type>>
    /\ IF can_send_alert(cache, symbol, PRIMARY_TIMEFRAME, signal_type, now)
       THEN LET recorded == record_alert(cache, symbol, PRIMARY_TIMEFRAME, signal_type, now)
                cleared == clear_opposite_signal(recorded, symbol, PRIMARY_TIMEFRAME,
                                                 signal_type)
            IN  /\ cache' = cleared
                /\ cacheFile' = [kind |-> "complete", data |-> cleared]
       ELSE UNCHANGED <<cache, cacheFile>>
    /\ UNCHANGED <<pc, ret, chk, stamp, acc, gapEv, tfData, loadSrc, raised, saveGhost>>
    /\ UNCHANGED <<clockVars, notAM>>

\* send_consolidated_alert for one coin: check_cooldown, then update_cooldown
\* and its _save_cooldowns.
FrameDetector(symbol, signal_type) ==
    /\ cache = EmptyDict /\ state = EmptyDict
    /\ cur' = <<symbol, signal_type>>
    /\ IF check_cooldown(cooldowns, symbol, signal_type, now)
       THEN /\ cooldowns' = update_cooldown(cooldowns, symbol, signal_type, now)
            /\ cooldownFile' = [kind |-> "complete",
                                data |-> update_cooldown(cooldowns, symbol, signal_type, now)]
       ELSE UNCHANGED <<cooldowns, cooldownFile>>
    /\ UNCHANGED <<cache, cacheFile, pc, ret, chk, stamp, acc, gapEv, tfData, loadSrc,
                   raised, saveGhost>>
    /\ UNCHANGED <<mainPc, batchStart, task, res, results, idx, qualifying, notifier, sent,
                   ledger0>>
    /\ UNCHANGED <<clockVars, candleVars, raceVars, crossVars, winVars, warmVars, barVars,
                   smiVars, rsiVars, testVars>>

\* One turn of SMIStandalone.analyze's loop: check_cooldown, then
\* update_cooldown with its sweep and its save_state.
FrameStandalone(symbol, signal_type, candle_timestamp) ==
    /\ cache = EmptyDict /\ cooldowns = EmptyDict
    /\ cur' = <<symbol, signal_type>>
    /\ IF check_cooldown_standalone(state, symbol, signal_type, candle_timestamp, now)
       THEN LET st2 == update_cooldown_standalone(state, symbol, signal_type,
                                                  candle_timestamp, now)
            IN  /\ state' = st2
                /\ stateFile' = [kind |-> "complete", data |-> st2]
       ELSE UNCHANGED <<state, stateFile>>
    /\ UNCHANGED <<cache, cacheFile, pc, ret, chk, stamp, acc, gapEv, tfData, loadSrc,
                   raised, saveGhost>>
    /\ UNCHANGED <<sPc, lastCheck, lastAcc, reacc>>
    /\ UNCHANGED <<clockVars, parVars, raceVars, crossVars, winVars, warmVars, barVars,
                   smiVars, rsiVars, testVars>>

\* Time passes between two operations.
FrameAdvance(d) ==
    /\ ticks < MaxCandleTicks
    /\ now' = now + d
    /\ ticks' = ticks + 1
    /\ cur' = <<>>
    /\ UNCHANGED <<cache, cacheFile, pc, ret, chk, stamp, acc, gapEv, tfData, loadSrc,
                   raised, saveGhost>>
    /\ UNCHANGED notAM

NextFrame ==
    \/ \E symbol \in FrameSymbols, signal_type \in SignalTypes : FrameAlert(symbol, signal_type)
    \/ \E symbol \in FrameSymbols, signal_type \in SignalTypes :
          FrameDetector(symbol, signal_type)
    \/ \E symbol \in FrameSymbols, signal_type \in SignalTypes,
          candle_timestamp \in FrameCandles :
          FrameStandalone(symbol, signal_type, candle_timestamp)
    \/ \E d \in FrameClockSteps : FrameAdvance(d)

-----------------------------------------------------------------------------
(* Test15MAnalyzer (test_smi_15m_analyzer.py) with TestSMI
   (test_smi_indicator.py) on one coin with enough candles: analyze_15m,
   analyze_coin, run.  smi_k and smi_d are the last values of the series that
   calculate_smi returned. *)

\* The result of find_latest_cross when neither candle has a cross: None.
NoCrossData == [candle_index |-> 0 - 1, cross_type |-> None]

\* find_latest_cross: the cross of the current candle (index n-1) if it has
\* one, else that of the previous candle (index n-2), else None.
find_latest_cross(k, d) ==
    LET n == Len(k)
        current == detect_cross_in_candle(At(k, n - 2), At(d, n - 2), At(k, n - 1), At(d, n - 1))
        previous == detect_cross_in_candle(At(k, n - 3), At(d, n - 3), At(k, n - 2), At(d, n - 2))
    IN  IF current # None THEN [candle_index |-> n - 1, cross_type |-> current]
        ELSE IF previous # None THEN [candle_index |-> n - 2, cross_type |-> previous]
        ELSE NoCrossData

\* np.where(~np.isnan(smi_k) & ~np.isnan(smi_d))[0]
ValidIndices(k, d) == {i \in 0 .. (Len(k) - 1) : ~IsNaN(At(k, i)) /\ ~IsNaN(At(d, i))}

\* analyze_15m returned None.
NoResult == [none |-> TRUE]

\* analyze_15m: None without a valid value, else a dict whose key 'cross'
\* holds what find_latest_cross returned.
analyze_15m(k, d) ==
    IF ValidIndices(k, d) = {}
    THEN NoResult
    ELSE LET latest_idx == SetMax(ValidIndices(k, d))
         IN  [smi_k |-> k, smi_d |-> d,
              latest_k |-> At(k, latest_idx), latest_d |-> At(d, latest_idx),
              cross |-> find_latest_cross(k, d)]

\* result.get('crosses', [])
GetCrosses(result) == IF "crosses" \in DOMAIN result THEN result.crosses ELSE <<>>

\* analyze_coin returned None.
NoAlerts == [returned |-> "None", alerts |-> <<>>]

\* analyze_coin after the fetch: None when analyze_15m returned None or
\* result.get('crosses', []) is empty, else one alert per cross.
analyze_coin(symbol, result) ==
    IF result = NoResult THEN NoAlerts
    ELSE IF GetCrosses(result) = <<>> THEN NoAlerts
    ELSE [returned |-> "list",
          alerts |-> [j \in 1 .. Len(GetCrosses(result)) |->
                         [symbol |-> symbol,
                          cross_type |-> GetCrosses(result)[j].cross_type]]]

InitTestIdle ==
    /\ analysis = NoResult
    /\ coinAlerts = NoAlerts
    /\ sentAlerts = <<>>
    /\ testPc = "done"

\* The last 3 to MaxWin values of the two series, as for the scan.
InitTestInputs ==
    /\ \E n \in 3 .. MaxWin, level \in WinLevels :
          /\ smi_k \in [1 .. n -> WinKValues(level)]
          /\ smi_d \in [1 .. n -> WinDValues(level)]
    /\ winI = 0
    /\ crosses = <<>>
    /\ winPc = "start"
    /\ analysis = NoResult
    /\ coinAlerts = NoAlerts
    /\ sentAlerts = <<>>
    /\ testPc = "analyze"

\* result = self.smi.analyze_15m(...)
TestAnalyze15m ==
    /\ testPc = "analyze"
    /\ analysis' = analyze_15m(smi_k, smi_d)
    /\ testPc' = "coin"
    /\ UNCHANGED <<coinAlerts, sentAlerts>>
    /\ UNCHANGED notTest

\* The rest of analyze_coin: from "if not result" to its return.
TestAnalyzeCoin ==
    /\ testPc = "coin"
    /\ coinAlerts' = analyze_coin("BTC", analysis)
    /\ testPc' = "run"
    /\ UNCHANGED <<analysis, sentAlerts>>
    /\ UNCHANGED notTest

\* run(): all_alerts.extend(alerts) if alerts; send_telegram(all_alerts) if
\* all_alerts.
TestRun ==
    /\ testPc = "run"
    /\ sentAlerts' = coinAlerts.alerts
    /\ testPc' = "done"
    /\ UNCHANGED <<analysis, coinAlerts>>
    /\ UNCHANGED notTest

NextTest ==
    \/ TestAnalyze15m
    \/ TestAnalyzeCoin
    \/ TestRun

vars ==
    <<clockVars, amVars, parVars, candleVars, raceVars, crossVars, winVars, warmVars, barVars,
      smiVars, rsiVars, testVars>>

Init == InitClock /\ InitAM /\ InitPar /\ InitCandle /\ InitRace /\ InitCrossIdle /\ InitWinIdle
        /\ InitWarmIdle /\ InitBarIdle /\ InitSmiIdle /\ InitRsiIdle /\ InitTestIdle

Next ==
    \/ LoadCache
    \/ \E s \in Symbols, st \in Statuses : AnalyzeSymbol(s, TimeframeData(st, NEUTRAL))
    \/ \E ok \in BOOLEAN : Deliver(ok)
    \/ RecordAlert
    \/ ClearOpposite
    \/ SaveOpen
    \/ \E k \in CacheKeys : SaveWrite(k)
    \/ SaveClose
    \/ Exit
    \/ \E d \in ClockSteps : Advance(d)

Spec == Init /\ [][Next]_vars

\* Crash recovery does not depend on the clock: the crash specification keeps
\* the time fixed.
NextCrash ==
    \/ LoadCache
    \/ \E s \in Symbols, st \in Statuses : AnalyzeSymbol(s, TimeframeData(st, NEUTRAL))
    \/ \E ok \in BOOLEAN : Deliver(ok)
    \/ RecordAlert
    \/ ClearOpposite
    \/ SaveOpen
    \/ \E k \in CacheKeys : SaveWrite(k)
    \/ SaveClose
    \/ Exit
    \/ Crash

SpecCrash == Init /\ [][NextCrash]_vars

\* The gate of the primary timeframe does not depend on the clock: the cycles
\* with every combination of statuses run at one time.
NextGate ==
    \/ LoadCache
    \/ \E s \in Symbols, st \in Statuses, other \in Statuses :
          AnalyzeSymbol(s, TimeframeData(st, other))
    \/ \E ok \in BOOLEAN : Deliver(ok)
    \/ RecordAlert
    \/ ClearOpposite
    \/ SaveOpen
    \/ \E k \in CacheKeys : SaveWrite(k)
    \/ SaveClose
    \/ Exit

SpecGate == Init /\ [][NextGate]_vars

SpecPar == Init /\ [][NextPar]_vars

SpecCandle == Init /\ [][NextCandle]_vars

SpecRace == Init /\ [][NextRace]_vars

\* The same invocations with table requests that may fail (throttling, a
\* missing table, no network).
NextFail ==
    \/ \E p \in Instances, cr \in RaceCrosses : RaceBegin(p, cr)
    \/ \E p \in Instances, fails \in BOOLEAN : RaceGetItem(p, fails)
    \/ \E p \in Instances, fails \in BOOLEAN : RaceScan(p, fails)
    \/ \E p \in Instances, fails \in BOOLEAN : RacePutItem(p, fails)
    \/ \E p \in Instances : RaceReturn(p)

SpecFail == Init /\ [][NextFail]_vars

InitCross ==
    InitClock /\ InitAM /\ InitPar /\ InitCandle /\ InitRace /\ InitCrossInputs /\ InitWinIdle
        /\ InitWarmIdle /\ InitBarIdle /\ InitSmiIdle /\ InitRsiIdle /\ InitTestIdle

SpecCross == InitCross /\ [][NextCross]_vars

InitWin ==
    InitClock /\ InitAM /\ InitPar /\ InitCandle /\ InitRace /\ InitCrossIdle /\ InitWinInputs
        /\ InitWarmIdle /\ InitBarIdle /\ InitSmiIdle /\ InitRsiIdle /\ InitTestIdle

SpecWin == InitWin /\ [][NextWin]_vars

InitWarm ==
    InitClock /\ InitAM /\ InitPar /\ InitCandle /\ InitRace /\ InitCrossIdle /\ InitWinIdle
        /\ InitWarmInputs /\ InitBarIdle /\ InitSmiIdle /\ InitRsiIdle /\ InitTestIdle

SpecWarm == InitWarm /\ [][NextWarm]_vars

InitBar ==
    InitClock /\ InitAM /\ InitPar /\ InitCandle /\ InitRace /\ InitCrossIdle /\ InitWinIdle
        /\ InitWarmIdle /\ InitBarInputs /\ InitSmiIdle /\ InitRsiIdle /\ InitTestIdle

SpecBar == InitBar /\ [][NextBar]_vars

InitSmi ==
    InitClock /\ InitAM /\ InitPar /\ InitCandle /\ InitRace /\ InitCrossIdle /\ InitWinIdle
        /\ InitWarmIdle /\ InitBarIdle /\ InitSmiInputs /\ InitRsiIdle /\ InitTestIdle

SpecSmi == InitSmi /\ [][NextSmi]_vars

InitRsi ==
    InitClock /\ InitAM /\ InitPar /\ InitCandle /\ InitRace /\ InitCrossIdle /\ InitWinIdle
        /\ InitWarmIdle /\ InitBarIdle /\ InitSmiIdle /\ InitRsiInputs /\ InitTestIdle

SpecRsi == InitRsi /\ [][NextRsi]_vars

SpecFrame == Init /\ [][NextFrame]_vars

InitTest ==
    InitClock /\ InitAM /\ InitPar /\ InitCandle /\ InitRace /\ InitCrossIdle /\ InitWarmIdle
        /\ InitBarIdle /\ InitSmiIdle /\ InitRsiIdle /\ InitTestInputs

SpecTest == InitTest /\ [][NextTest]_vars

-----------------------------------------------------------------------------
(* Properties of the time-cooldown ledger (Spec, SpecCrash). *)

\* C1: after record(key) at time T, can_send_alert(key) is false for every
\* query time in [T, T + cooldown) and true at T + cooldown and later; with no
\* record for the key it is true.  chk is the latest call: its key, its query
\* time, the time the key was last stamped (NoTime: no record) and the answer.
C1_CooldownWindow ==
    chk.key # <<>> =>
       (chk.result <=>
          (chk.T = NoTime \/ chk.at >= chk.T + CooldownMinutes(chk.key[2])))

\* A query exactly at T + cooldown was answered true.
C1_Witness ==
    /\ chk.key # <<>>
    /\ chk.T # NoTime
    /\ chk.at = chk.T + CooldownMinutes(chk.key[2])
    /\ chk.result

C9_SaveIsAtomic ==
    pc = "start" =>
       /\ cacheFile \in {saveGhost.pre, saveGhost.post}
       /\ cacheFile.kind # "partial"

-----------------------------------------------------------------------------
(* Properties of the parallel driver (SpecPar). *)

\* C3: a cooldown record is written only after the notification sink
\* confirmed delivery; with a failed delivery or no notifier the ledger is as
\* it was loaded.
C3_RecordOnlyAfterDelivery ==
    cooldowns # ledger0 => sent = "ok"

\* C7: while send_consolidated_alert reads and writes the ledger, no worker
\* task is running: every coin's task has finished.
C7_LedgerAfterJoin ==
    mainPc = "alert" => \A c \in Coins : task[c] = "done"

\* The ledger was written in the alert loop, after tasks of two batches ran.
C7_Witness ==
    /\ mainPc = "alert"
    /\ cooldowns # ledger0
    /\ Len(results) > 1

-----------------------------------------------------------------------------
(* Properties of the candle-dedup ledger (SpecCandle, SpecRace). *)

NoExactRecord(st, tr) ==
    ~ \E key \in DOMAIN st :
         /\ st[key].symbol = tr[1]
         /\ st[key].signal_type = tr[2]
         /\ st[key].candle_timestamp = StrfMinute(tr[3])

\* No record of the ledger st for this symbol and type is younger than the
\* freshness window at minute t.
NoFreshRecord(st, tr, t) ==
    ~ \E key \in DOMAIN st :
         /\ st[key].symbol = tr[1]
         /\ st[key].signal_type = tr[2]
         /\ t - FromIsoFormat(st[key].last_alert_time) < FRESHNESS_MINUTES

\* C5: a check is accepted exactly when the ledger it reads has no record for
\* the candle and no record of the same symbol and signal type younger than
\* 90 minutes; a record exactly 90 minutes old does not suppress.
C5_AcceptedIffBothPass ==
    [][lastCheck'.triple # <<>> /\ lastCheck' # lastCheck =>
          (lastCheck'.result <=>
             (NoExactRecord(state, lastCheck'.triple)
                /\ NoFreshRecord(state, lastCheck'.triple, now)))]_vars

\* A check was accepted with a record of the same symbol and type, for
\* another candle, exactly 90 minutes old.
C5_Witness ==
    /\ lastCheck.triple # <<>>
    /\ lastCheck.result
    /\ \E key \in DOMAIN state :
          /\ state[key].symbol = lastCheck.triple[1]
          /\ state[key].signal_type = lastCheck.triple[2]
          /\ state[key].candle_timestamp # StrfMinute(lastCheck.triple[3])
          /\ now - FromIsoFormat(state[key].last_alert_time) = FRESHNESS_MINUTES

\* C6: of the instances that check and record the same cross against the
\* shared table, at most one accepts it.
C6_AtMostOneAccepts ==
    \A cr \in RaceCrosses : Cardinality({p \in Instances : <<p, cr>> \in rAccepted}) <= 1

-----------------------------------------------------------------------------
(* Properties of the crossover detector (SpecCross). *)

\* C10: for every adjacent pair the detector's bullish flag and its bearish
\* flag are never both true.
C10_MutuallyExclusive ==
    crossDone => ~(cross.bullish /\ cross.bearish)

\* The detector raised the bullish flag on a pair that starts from a tie.
C10_Witness ==
    /\ crossDone
    /\ cross.bullish
    /\ k_prev = d_prev

\* The four values are numbers and k_prev + k_curr lies strictly between twice
\* the oversold and twice the overbought threshold.
MidpointNeutral ==
    /\ ~IsNaN(k_prev) /\ ~IsNaN(d_prev) /\ ~IsNaN(k_curr) /\ ~IsNaN(d_curr)
    /\ 2 * SMI_OVERSOLD < k_prev + k_curr
    /\ k_prev + k_curr < 2 * SMI_OVERBOUGHT

\* C11: a crossover whose midpoint (k_prev + k_curr) / 2 lies strictly between
\* the oversold and the overbought threshold produces no event, in
\* detect_cross_detailed (SMIDebug, SMIStandalone) and in detect_cross_in_candle.
C11_NoEventInNeutralZone ==
    (crossDone /\ MidpointNeutral) => (cross.cross_type = None /\ crossTest = None)

\* A bullish crossover with its midpoint between the thresholds went through
\* the detector.
C11_Witness ==
    /\ crossDone
    /\ MidpointNeutral
    /\ k_prev <= d_prev
    /\ k_curr > d_curr

\* The event the pair is to give: OVERSOLD for %K going from at or below %D to
\* above it with the midpoint at or below the oversold threshold, OVERBOUGHT
\* for the mirror case, None otherwise (and with any value undefined).
ExpectedEvent ==
    IF IsNaN(k_prev) \/ IsNaN(d_prev) \/ IsNaN(k_curr) \/ IsNaN(d_curr) THEN None
    ELSE IF k_prev <= d_prev /\ k_curr > d_curr /\ k_prev + k_curr <= 2 * SMI_OVERSOLD
         THEN OVERSOLD
    ELSE IF k_prev >= d_prev /\ k_curr < d_curr /\ k_prev + k_curr >= 2 * SMI_OVERBOUGHT
         THEN OVERBOUGHT
    ELSE None

\* C12: the detector returns an event exactly for a bullish cross with midpoint
\* <= oversold (typed OVERSOLD) or a bearish cross with midpoint >= overbought
\* (typed OVERBOUGHT); a cross in the zone of the other direction gives none.
C12_EventIffCrossInOwnZone ==
    crossDone => (cross.cross_type = ExpectedEvent /\ crossTest = ExpectedEvent)

\* %K from 38 to 42 across %D = 40: a bullish cross in the overbought zone,
\* and no event.
C12_Witness ==
    /\ crossDone
    /\ k_prev = 38 /\ d_prev = 40 /\ k_curr = 42 /\ d_curr = 40
    /\ cross.bullish
    /\ cross.cross_type = None

-----------------------------------------------------------------------------
(* Properties of the scan of the last candles (SpecWin). *)

\* One of the four values the detector reads at position i is undefined.
UndefinedAt(i) ==
    \/ IsNaN(At(smi_k, i - 1)) \/ IsNaN(At(smi_d, i - 1))
    \/ IsNaN(At(smi_k, i)) \/ IsNaN(At(smi_d, i))

\* Position i is a bullish crossover with its midpoint in the oversold zone.
OversoldCrossAt(i) ==
    /\ ~UndefinedAt(i)
    /\ At(smi_k, i - 1) <= At(smi_d, i - 1)
    /\ At(smi_k, i) > At(smi_d, i)
    /\ At(smi_k, i - 1) + At(smi_k, i) <= 2 * SMI_OVERSOLD

\* The positions for which the list holds an event.
Reported == {crosses[j].candle_index : j \in 1 .. Len(crosses)}

\* C13: a position with an undefined value among k_prev, d_prev, k_curr,
\* d_curr yields no event, and the scan goes on: a crossover at a later
\* position of the scan is still reported.
C13_UndefinedSkipped ==
    (winPc = "done" /\ Len(smi_k) >= 3) =>
       \A i \in {Len(smi_k) - 2, Len(smi_k) - 1} :
          /\ UndefinedAt(i) => i \notin Reported
          /\ OversoldCrossAt(i) => i \in Reported

\* The scan met an undefined value at one position and reported the crossover
\* of the position after it.
C13_Witness ==
    /\ winPc = "done"
    /\ Len(smi_k) >= 3
    /\ UndefinedAt(Len(smi_k) - 2)
    /\ OversoldCrossAt(Len(smi_k) - 1)
    /\ Len(smi_k) - 1 \in Reported

-----------------------------------------------------------------------------
(* Properties of the gate of the primary timeframe (SpecGate). *)

\* C14: an alert is sent and the ledger written only in a cycle whose primary
\* timeframe was classified OVERBOUGHT or OVERSOLD, and for that type; a
\* cycle whose primary timeframe is NEUTRAL or has no data sends nothing and
\* leaves the ledger and its file as they were, whatever the other timeframes
\* say.
C14_PrimaryTimeframeGates ==
    /\ [](pc \notin {"start", "idle"} =>
            (tfData[PRIMARY_TIMEFRAME] \in SignalTypes
               /\ cur[2] = tfData[PRIMARY_TIMEFRAME]))
    /\ [][(pc = "idle" /\ pc' # "start" /\ tfData'[PRIMARY_TIMEFRAME] \notin SignalTypes) =>
             (pc' = "idle" /\ cache' = cache /\ cacheFile' = cacheFile)]_vars

\* A cycle with a NEUTRAL primary timeframe and an OVERBOUGHT 1h timeframe
\* ended without an alert.
C14_Witness ==
    /\ pc = "idle"
    /\ tfData[PRIMARY_TIMEFRAME] = NEUTRAL
    /\ tfData["1h"] = OVERBOUGHT

-----------------------------------------------------------------------------
(* Properties of the loop over the timeframes (SpecWarm). *)

\* C15: a timeframe with fewer candles than the warm-up needs yields no
\* signal (absent in analyze_symbol, NEUTRAL without values in
\* analyze_single_coin), no exception leaves the loop, and the timeframes
\* after it are still analysed: one with MIN_CANDLES_REQUIRED candles gets
\* the classification of its series.
C15_InsufficientDataIsNoSignal ==
    /\ ~coinLost
    /\ (seqIdx > Len(TimeframeSeq) /\ parIdx > Len(TimeframeSeq)) =>
          \A tf \in TIMEFRAMES :
             /\ candleCount[tf] < WarmUp =>
                   (seqData[tf] = NoData
                      /\ parData[tf].signal = NEUTRAL /\ ~parData[tf].has_values)
             /\ candleCount[tf] >= MIN_CANDLES_REQUIRED =>
                   (seqData[tf] = fullSignal[tf]
                      /\ parData[tf].signal = fullSignal[tf] /\ parData[tf].has_values)

\* Both loops ran to the end with too few candles on the first timeframe and
\* an OVERBOUGHT classification on a later one.
C15_Witness ==
    /\ seqIdx > Len(TimeframeSeq) /\ parIdx > Len(TimeframeSeq)
    /\ candleCount["15m"] = WarmUp - 1
    /\ candleCount["1h"] = MIN_CANDLES_REQUIRED
    /\ seqData["1h"] = OVERBOUGHT
    /\ parData["1h"].signal = OVERBOUGHT

-----------------------------------------------------------------------------
(* Properties of the failure paths of the ledger (SpecFail). *)

\* C16: an invocation in which the ledger read (get_item, scan) or the ledger
\* write (put_item) failed accepts no alert for the cross it was checking.
C16_FailureMeansNoAlert ==
    \A p \in Instances :
       (rPc[p] = "return" /\ rFailed[p]) => <<p, rCur[p]>> \notin rAccepted

-----------------------------------------------------------------------------
(* Properties of clear_opposite_signal (Spec). *)

\* C17: when the cycle that accepted and recorded an alert of one signal type
\* ends, the ledger and its file hold no record of the other signal type for
\* the same symbol and timeframe, and can_send_alert for that other type is
\* true at once.
C17_OppositeCleared ==
    [][(pc \in {"clear", "save_dump"} /\ pc' = "idle") =>
          \A other \in SignalTypes \ {cur[2]} :
             /\ CacheKey(cur[1], PRIMARY_TIMEFRAME, other) \notin DOMAIN cache'
             /\ CacheKey(cur[1], PRIMARY_TIMEFRAME, other) \notin DOMAIN cacheFile'.data
             /\ can_send_alert(cache', cur[1], PRIMARY_TIMEFRAME, other, now')]_vars

\* can_send_alert answered true for a type that had itself been accepted less
\* than one cooldown earlier, the other type having been accepted since.
C17_Witness ==
    /\ chk.key # <<>>
    /\ chk.result
    /\ acc[chk.key].last # NoTime
    /\ acc[chk.key].oppSince
    /\ chk.at - acc[chk.key].last < CooldownMinutes(chk.key[2])

-----------------------------------------------------------------------------
(* Properties of the threshold-level classification (SpecBar). *)

\* The %K and %D of the last bar of the series, NaN where undefined.
LatestBar ==
    LET sums == SmoothedSums(calculate_stoch(rsiBars, LENGTH_STOCH), SMOOTH_K, SMOOTH_D)
    IN  [k |-> FloatMean(sums.k[Len(rsiBars)], SMOOTH_K),
         d |-> FloatMean(sums.d[Len(rsiBars)], SMOOTH_K * SMOOTH_D)]

BothAtOrAbove(level) == LatestBar.k >= level /\ LatestBar.d >= level

BothAtOrBelow(level) == LatestBar.k <= level /\ LatestBar.d <= level

ThresholdLevel(status) ==
    /\ status \in {OVERBOUGHT, OVERSOLD, NEUTRAL}
    /\ status = OVERBOUGHT <=> BothAtOrAbove(OVERBOUGHT_LEVEL)
    /\ status = OVERSOLD <=> BothAtOrBelow(OVERSOLD_LEVEL)

\* C18: a timeframe that analyze_symbol classifies, and one that
\* src/stoch_rsi.py's determine_signal classifies, is OVERBOUGHT exactly when
\* the %K and the %D of the latest bar are both at or above the overbought
\* level, OVERSOLD exactly when both are at or below the oversold level, and
\* NEUTRAL in every other case.
C18_ThresholdLevelPolicy ==
    /\ (barPc # "main" /\ mainEntry.status # NoData) =>
          /\ mainEntry.k = LatestBar.k
          /\ mainEntry.d = LatestBar.d
          /\ ThresholdLevel(mainEntry.status)
    /\ (barPc \notin {"main", "module"} /\ moduleSignal # None) =>
          ThresholdLevel(moduleSignal)

\* Only %K is beyond the overbought level, and both classifications are
\* NEUTRAL.
C18_Witness ==
    /\ barPc = "done"
    /\ LatestBar.k >= OVERBOUGHT_LEVEL
    /\ ~IsNaN(LatestBar.d) /\ LatestBar.d < OVERBOUGHT_LEVEL
    /\ mainEntry.status = NEUTRAL
    /\ moduleSignal = NEUTRAL

-----------------------------------------------------------------------------
(* Properties of an undefined latest bar (SpecBar). *)

LatestUndefined == IsNaN(LatestBar.k) \/ IsNaN(LatestBar.d)

\* C19: when the %K or the %D of the latest bar is undefined, the timeframe
\* has no signal: analyze_symbol stores no entry for it, and
\* analyze_single_coin stores the entry without values, NEUTRAL, and never
\* one that holds the values of an earlier bar or a substituted number.
C19_UndefinedLatestIsNoSignal ==
    /\ (barPc # "main" /\ LatestUndefined) => mainEntry = NoTimeframeEntry
    /\ (barPc = "done" /\ LatestUndefined) =>
          coinEntry = TimeframeEntry(NoValue, NoValue, NEUTRAL)

-----------------------------------------------------------------------------
(* Properties of the SMI %K (SpecSmi). *)

\* What %K is to be at each position: NaN where the denominator is NaN, zero
\* or within EPSILON of zero, 200 * numerator / denominator elsewhere.
SmiAsSpecified(smi) ==
    \A i \in DOMAIN denominator :
        IF IsNaN(denominator[i]) \/ SmiAbs(denominator[i]) <= EPSILON
        THEN IsNaN(smi[i])
        ELSE smi[i] = (200 * numerator[i]) \div denominator[i]

\* C20: in each of the three SMI engines, %K at a position is NaN, never 0,
\* when the double-EMA denominator there is zero or within epsilon of zero,
\* and 200 * numerator / denominator otherwise.
C20_SmiUndefinedNearZero ==
    /\ smiTest # NotComputed => SmiAsSpecified(smiTest)
    /\ smiDebug # NotComputed => SmiAsSpecified(smiDebug)
    /\ smiStandalone # NotComputed => SmiAsSpecified(smiStandalone)

-----------------------------------------------------------------------------
(* Properties of the retention sweep (SpecCandle). *)

\* The age of a ledger record, in minutes.
RecordAge(key) == now - FromIsoFormat(state[key].last_alert_time)

\* update_cooldown has just returned: the last check allowed the alert and
\* the clock has not moved since.
JustUpdated == lastCheck.triple # <<>> /\ lastCheck.result

\* C21: after update_cooldown returns, no record whose last_alert_time is
\* more than 7 days old remains in the ledger or in its file.
C21_NoRecordOlderThanRetention ==
    JustUpdated =>
        /\ \A key \in DOMAIN state : RecordAge(key) <= RETENTION_DAYS * 24 * 60
        /\ stateFile.data = state

\* The close series is constant, and longer than every lookback.
ConstantClose ==
    /\ Len(closeSeries) >= WarmUp
    /\ \A i \in DOMAIN closeSeries : closeSeries[i] = closeSeries[1]

\* The positions of a series of the run past the RSI warm-up.
PastRsiWarmUp == (LENGTH_RSI + 1)..Len(closeSeries)

\* C22: on a constant close series longer than every lookback, the RSI of
\* calculate_rsi and of calculate_rsi_tradingview is a defined number (not
\* NaN) at every position past the warm-up.
C22_ConstantCloseRsiDefined ==
    ConstantClose =>
        /\ mainSeries # NoSeries => \A i \in PastRsiWarmUp : ~IsNaN(mainSeries.rsi[i])
        /\ tvSeries # NoSeries => \A i \in PastRsiWarmUp : ~IsNaN(tvSeries.rsi[i])

\* The close series rises at every bar and has at least 3 x (RSI length) bars.
StrictlyIncreasing ==
    /\ Len(closeSeries) >= 3 * LENGTH_RSI
    /\ \A i \in 2..Len(closeSeries) : closeSeries[i] > closeSeries[i - 1]

\* A defined number within [0, 100].
IsPercent(x) == ~IsNaN(x) /\ x >= 0 /\ x <= 100

\* The RSI is 100 past its warm-up, and %K and %D are defined, within
\* [0, 100], and 100 at the last bar.
ConvergedTo100(series) ==
    /\ \A i \in PastRsiWarmUp : series.rsi[i] = 100
    /\ \A i \in WarmUp..Len(closeSeries) : IsPercent(series.k[i]) /\ IsPercent(series.d[i])
    /\ series.k[Len(closeSeries)] = 100
    /\ series.d[Len(closeSeries)] = 100

\* C23: on a strictly increasing close series of at least 3 x (RSI length)
\* bars the RSI is defined and equal to 100, and %K and %D are defined, reach
\* 100 and stay within [0, 100], in src/main.py and in src/src/stochastic_rsi.py.
C23_IncreasingCloseConvergesTo100 ==
    StrictlyIncreasing =>
        /\ mainSeries # NoSeries => ConvergedTo100(mainSeries)
        /\ tvSeries # NoSeries => ConvergedTo100(tvSeries)

\* The sum of the lookback and smoothing lengths of the StochRSI engine:
\* the positions 1..WarmUpBoundary are the indices before it, counted from 0.
WarmUpBoundary == LENGTH_RSI + LENGTH_STOCH + SMOOTH_K + SMOOTH_D

\* C24: for any input length n the %K and %D series of
\* calculate_stochastic_rsi have length n, every position before the warm-up
\* boundary is NaN (never 0), and every position at or after it is a defined
\* number within [0, 100].
C24_WarmUpBoundary ==
    mainSeries # NoSeries =>
        /\ Len(mainSeries.k) = Len(closeSeries)
        /\ Len(mainSeries.d) = Len(closeSeries)
        /\ \A i \in DOMAIN closeSeries :
              IF i <= WarmUpBoundary
              THEN IsNaN(mainSeries.k[i]) /\ IsNaN(mainSeries.d[i])
              ELSE IsPercent(mainSeries.k[i]) /\ IsPercent(mainSeries.d[i])

-----------------------------------------------------------------------------
(* Further properties of the scan of the last candles (SpecWin). *)

\* The event the detector gives for candle i against candle i - 1.
CrossTypeAt(i) ==
    detect_cross_detailed(At(smi_k, i - 1), At(smi_d, i - 1),
                          At(smi_k, i), At(smi_d, i)).cross_type

\* The last 3 candles that have a predecessor: indices n-3, n-2, n-1.
Last3Candles == {i \in (Len(smi_k) - 3) .. (Len(smi_k) - 1) : i >= 1}

\* The events of the list are in increasing candle-index order.
IncreasingOrder ==
    \A a, b \in 1 .. Len(crosses) :
        a < b => crosses[a].candle_index < crosses[b].candle_index

\* C25: check_last_3_candles checks each of the last 3 candles (indices n-3,
\* n-2, n-1) against its predecessor and returns the qualifying events in
\* increasing candle-index order; with fewer than 3 candles it returns none.
C25_Last3CandlesChecked ==
    winPc = "done" =>
        /\ Len(smi_k) < 3 => crosses = <<>>
        /\ Len(smi_k) >= 3 =>
              /\ \A i \in Last3Candles : CrossTypeAt(i) # None <=> i \in Reported
              /\ Reported \subseteq Last3Candles
        /\ IncreasingOrder

-----------------------------------------------------------------------------
(* classify_signal on what get_latest_stoch_rsi returned (SpecBar). *)

\* analyze_single_coin has classified a timeframe.
Classified == barPc = "done" /\ coinEntry # NoTimeframeEntry

\* C26: classify_signal gives OVERBOUGHT whenever %K or %D is above 80,
\* OVERSOLD whenever %K or %D is below 20, NEUTRAL otherwise, and NEUTRAL
\* whenever %K or %D is None.
C26_ClassifyEitherLine ==
    Classified =>
        IF coinEntry.k = NoValue \/ coinEntry.d = NoValue
        THEN coinEntry.status = NEUTRAL
        ELSE /\ (coinEntry.k > 80 \/ coinEntry.d > 80) => coinEntry.status = OVERBOUGHT
             /\ (coinEntry.k < 20 \/ coinEntry.d < 20) => coinEntry.status = OVERSOLD
             /\ (coinEntry.k <= 80 /\ coinEntry.d <= 80 /\ coinEntry.k >= 20 /\ coinEntry.d >= 20)
                    => coinEntry.status = NEUTRAL

\* A timeframe classified OVERBOUGHT with %K above 80 and %D not above it.
C26_Witness ==
    /\ Classified
    /\ coinEntry.k > 80
    /\ coinEntry.d # NoValue /\ coinEntry.d <= 80
    /\ coinEntry.status = OVERBOUGHT

-----------------------------------------------------------------------------
(* Both signal types in the time-cooldown ledger (SpecCrash). *)

\* The ledger holds an OVERBOUGHT and an OVERSOLD record of one symbol on the
\* primary timeframe.
BothRecorded(ledger) ==
    \E symbol \in Symbols :
        /\ CacheKey(symbol, PRIMARY_TIMEFRAME, OVERBOUGHT) \in DOMAIN ledger
        /\ CacheKey(symbol, PRIMARY_TIMEFRAME, OVERSOLD) \in DOMAIN ledger

\* No analyze_symbol step is under way: the process is between two symbols,
\* has exited, or has been killed.
BetweenSteps == pc \in {"idle", "start"}

\* C28: started from an empty ledger, after every completed analyze_symbol
\* step the ledger holds at most one of the OVERBOUGHT and OVERSOLD records of
\* a symbol and timeframe, in memory and in the file, also when the process
\* crashed between the save of record_alert and that of clear_opposite_signal.
C28_AtMostOneSignalTypeRecorded ==
    BetweenSteps =>
        /\ ~BothRecorded(cache)
        /\ cacheFile.kind = "complete" => ~BothRecorded(cacheFile.data)

-----------------------------------------------------------------------------
(* Operations for one symbol and the keys of the other symbols (SpecFrame). *)

\* The step is an operation for the symbol cur'[1].
OperationStep == cur' # <<>>

OtherSymbols == FrameSymbols \ {cur'[1]}

\* The entries of the symbols other than symbol are the same in both ledgers
\* (the symbol is the first component of every key).
OtherEntriesKept(old, new, symbol) ==
    \A key \in (DOMAIN old) \cup (DOMAIN new) :
        key[1] # symbol => key \in DOMAIN old /\ key \in DOMAIN new /\ old[key] = new[key]

\* AlertManager: the step leaves every entry and every can_send_alert answer
\* of the other symbols as they were, and touches nothing when it rejects.
AlertManagerFrame ==
    /\ OtherEntriesKept(cache, cache', cur'[1])
    /\ \A symbol \in OtherSymbols, signal_type \in SignalTypes :
          can_send_alert(cache', symbol, PRIMARY_TIMEFRAME, signal_type, now)
              = can_send_alert(cache, symbol, PRIMARY_TIMEFRAME, signal_type, now)
    /\ \A key \in DOMAIN cache' :
          key \in DOMAIN cache /\ cache'[key] # cache[key] =>
              key = CacheKey(cur'[1], PRIMARY_TIMEFRAME, cur'[2])
    /\ \A key \in DOMAIN cache :
          key \notin DOMAIN cache' =>
              key = CacheKey(cur'[1], PRIMARY_TIMEFRAME, Opposite(cur'[2]))
    /\ ~can_send_alert(cache, cur'[1], PRIMARY_TIMEFRAME, cur'[2], now) => cache' = cache

\* SignalDetector: the same for check_cooldown and update_cooldown.
SignalDetectorFrame ==
    /\ OtherEntriesKept(cooldowns, cooldowns', cur'[1])
    /\ \A symbol \in OtherSymbols, signal_type \in SignalTypes :
          check_cooldown(cooldowns', symbol, signal_type, now)
              = check_cooldown(cooldowns, symbol, signal_type, now)

\* check_cooldown of SMIStandalone answers differently after the step.
StandaloneOutcomeChanged(symbol, signal_type, candle_timestamp) ==
    check_cooldown_standalone(state', symbol, signal_type, candle_timestamp, now)
        # check_cooldown_standalone(state, symbol, signal_type, candle_timestamp, now)

\* The record of the key is one the retention sweep removes at this time.
SweptRecord(symbol, signal_type, candle_timestamp) ==
    LET key == StateKey(symbol, signal_type, candle_timestamp)
    IN  /\ key \in DOMAIN state
        /\ DaysOf(now - FromIsoFormat(state[key].last_alert_time)) > RETENTION_DAYS

\* C29 as stated: a ledger operation for one symbol never changes the
\* accept/reject outcome of a key of a different symbol, in any of the three
\* ledgers: the check is read-only, the record changes only its own key, and
\* the clear removes only the opposite entry of the same symbol and timeframe.
C29_OtherSymbolsUnaffected ==
    [][OperationStep =>
          /\ AlertManagerFrame
          /\ SignalDetectorFrame
          /\ \A symbol \in OtherSymbols, signal_type \in SignalTypes,
                candle_timestamp \in FrameCandles :
                ~StandaloneOutcomeChanged(symbol, signal_type, candle_timestamp)]_vars

\* C29, amended: the same, except that update_cooldown of SMIStandalone also
\* removes the records of every symbol that its retention sweep finds too
\* old; the answer for a key of another symbol changes only for such a record.
C29_OtherSymbolsUnaffectedButSweep ==
    [][OperationStep =>
          /\ AlertManagerFrame
          /\ SignalDetectorFrame
          /\ \A symbol \in OtherSymbols, signal_type \in SignalTypes,
                candle_timestamp \in FrameCandles :
                StandaloneOutcomeChanged(symbol, signal_type, candle_timestamp)
                    => SweptRecord(symbol, signal_type, candle_timestamp)]_vars

\* An OVERSOLD alert for BTC has just been recorded at a later minute than
\* the first alert; BTC has no OVERBOUGHT record and the OVERBOUGHT record of
\* ETH is in the ledger.
C29_Witness ==
    /\ cur = <<"BTC", OVERSOLD>>
    /\ CacheKey("BTC", PRIMARY_TIMEFRAME, OVERSOLD) \in DOMAIN cache
    /\ FromIsoFormat(cache[CacheKey("BTC", PRIMARY_TIMEFRAME, OVERSOLD)]) = now
    /\ now > 0
    /\ CacheKey("BTC", PRIMARY_TIMEFRAME, OVERBOUGHT) \notin DOMAIN cache
    /\ CacheKey("ETH", PRIMARY_TIMEFRAME, OVERBOUGHT) \in DOMAIN cache

-----------------------------------------------------------------------------
(* The 15M test analyzer from the crossover to the notifier (SpecTest). *)

\* analyze_15m found a qualifying crossover.
CrossFound == analysis # NoResult /\ analysis.cross # NoCrossData

\* C30: whenever analyze_15m finds a qualifying crossover, analyze_coin
\* returns a non-empty alert list and run() hands it to the notifier.
C30_CrossReachesNotifier ==
    (testPc = "done" /\ CrossFound) =>
        /\ coinAlerts.returned = "list"
        /\ coinAlerts.alerts # <<>>
        /\ sentAlerts = coinAlerts.alerts

====
